---- MODULE Spec2Model ----
(***************************************************************************)
(* SpiraChain / SpiraPi: the spiral query engine                           *)
(* (crates/spirapi/src/query/spiral_engine.py) and the pi-derived          *)
(* identifier engine (crates/spirapi/src/math_engine/pi_sequences.py).     *)
(*                                                                         *)
(* Lengths are fixed-point integers in thousandths of a unit; an angle is  *)
(* the number k of 0.1 rad steps taken, and cos, sin, phi^(2t/pi) and e^t  *)
(* are tabulated at those angles in thousandths.                           *)
(***************************************************************************)
EXTENDS Integers, Sequences, FiniteSets, TLC

VARIABLES
    data_nodes,       \* the caller's node map: id -> QueryNode
    query_cache,      \* SpiralQueryEngine.query_cache: cache key -> result
    execution_stats,  \* SpiralQueryEngine.execution_stats: type -> count
    query_times,      \* SpiralQueryEngine.query_times
    cache_hits,       \* SpiralQueryEngine.cache_hits
    cache_misses,     \* SpiralQueryEngine.cache_misses
    calls,            \* history: the calls made so far and what they returned
    id_pool,              \* PiDIndexationEngine.id_pool
    process_pool,         \* PiDIndexationEngine.process_pool: "open" or "shutdown"
    thread_pool,          \* PiDIndexationEngine.thread_pool: "open" or "shutdown"
    generated_sequences,  \* EnhancedPiSequenceGenerator.generated_sequences
    generation_count,     \* EnhancedPiSequenceGenerator.generation_count
    collision_count,      \* EnhancedPiSequenceGenerator.collision_count
    operation_count,      \* PiDIndexationEngine.operation_count
    clock,                \* time.time() in microseconds
    returns,              \* history: what each identifier call returned or raised
    computation_cache,    \* AdvancedPiCalculator.computation_cache
    threads,              \* the concurrent callers: thread -> its position and locals
    calculation_cache,    \* AdvancedSpiralCalculator.calculation_cache
    locks,                \* LockManager.locks: resource -> lock type -> transaction
    waiting_transactions, \* LockManager.waiting_transactions: resource -> list
    locks_held            \* Transaction.locks_held of each transaction

qvars == <<data_nodes, query_cache, execution_stats, query_times,
           cache_hits, cache_misses, calls>>

idvars == <<id_pool, process_pool, thread_pool, generated_sequences,
            generation_count, collision_count, operation_count, clock, returns>>

cvars == <<computation_cache, threads>>

lvars == <<calculation_cache, locks, waiting_transactions, locks_held>>

vars == <<qvars, idvars, cvars, lvars>>

(***************************************************************************)
(* Bounds of the model.                                                    *)
(***************************************************************************)
MaxCalls == 2        \* execute_spiral_query calls in one behaviour
MaxOps == 3          \* identifier-engine calls in one behaviour
PoolCount == 2       \* entries pre-generated into id_pool (10000 in the source)
NumThreads == 2      \* concurrent callers of one engine

\* "the clock does not pass the deadline during the call"
NoExpiry == 0 - 1

(***************************************************************************)
(* Generic helpers.                                                        *)
(***************************************************************************)
Abs(x) == IF x < 0 THEN -x ELSE x

Range(s) == {s[i] : i \in 1..Len(s)}

\* a * b / 1000 for |b| <= 1000, without leaving 32 bits
MulMilli(a, b) == (a \div 1000) * b + ((a % 1000) * b) \div 1000

\* sqrt(dx^2 + dy^2) <= r, for r >= 0
Within(dx, dy, r) ==
    /\ Abs(dx) <= r
    /\ Abs(dy) <= r
    /\ dx * dx + dy * dy <= r * r

\* math.sqrt(dx^2 + dy^2), kept as its square; beyond FarAway all that any
\* comparison of the engine needs is "farther than every radius"
FarAway == 30 * 1000

Dist2(dx, dy) ==
    IF Abs(dx) > FarAway \/ Abs(dy) > FarAway
    THEN FarAway * FarAway * 2
    ELSE dx * dx + dy * dy

(***************************************************************************)
(* Tables of the transcendental functions at the angles k * 0.1 rad.       *)
(***************************************************************************)
CosTab == <<1000, 995, 980, 955, 921, 878, 825, 765>>
SinTab == <<0, 100, 199, 296, 389, 479, 565, 644>>
PhiTab == <<1000, 1031, 1063, 1096, 1130, 1166, 1202, 1239>>
ExpTab == <<1000, 1105, 1221, 1350, 1492, 1649, 1822, 2014>>

Cos(k) == CosTab[k + 1]
Sin(k) == SinTab[k + 1]

\* math.exp(growth_rate * angle) for the growth rates 0 and 1
Exp(growth, k) == IF growth = 0 THEN 1000 ELSE ExpTab[k + 1]

(***************************************************************************)
(* The node universe of the caller.                                        *)
(***************************************************************************)
NodeIds == 1..4

NodePosition == <<<<0, 0>>, <<1000, 0>>, <<1500, 500>>, <<1200, 1200>>>>
NodeAge == <<20, 25, 30, 40>>

\* a node's payload, and the Python type of each of its values: an int is
\* an integer, a str is the sequence of its characters (digits, as numbers)
MkNode(n) ==
    [id |-> n, position |-> NodePosition[n], data |-> [age |-> NodeAge[n]],
     types |-> [age |-> "int"],
     last_accessed |-> 0, access_count |-> 0]

NodeMaps == {{}, NodeIds}

\* heterogeneous payloads: node 2 has no age, node 3 has the str "30"
MixedData == <<[age |-> 20], [name |-> <<7>>], [age |-> <<3, 0>>], [age |-> 40]>>
MixedTypes == <<[age |-> "int"], [name |-> "str"], [age |-> "str"], [age |-> "int"]>>

MkMixedNode(n) ==
    [id |-> n, position |-> NodePosition[n], data |-> MixedData[n],
     types |-> MixedTypes[n],
     last_accessed |-> 0, access_count |-> 0]

(***************************************************************************)
(* Queries (SpiralQuery).  criteria is the dict in insertion order: a      *)
(* sequence of [field, kind, value, ops]; kind "direct" compares with      *)
(* value, kind "dict" carries the condition dict as a set of <<key, v>>.   *)
(***************************************************************************)
NoCriteria == <<>>
AgeGt25    == <<[field |-> "age", kind |-> "dict", value |-> 0, ops |-> {<<"$gt", 25>>}]>>
AgeMin26   == <<[field |-> "age", kind |-> "dict", value |-> 0, ops |-> {<<"min", 26>>}]>>
AgeIs30    == <<[field |-> "age", kind |-> "direct", value |-> 30, ops |-> {}]>>
AgeHas0    == <<[field |-> "age", kind |-> "dict", value |-> 0, ops |-> {<<"contains", <<0>>>>}]>>
ScoreIs1   == <<[field |-> "score", kind |-> "direct", value |-> 1, ops |-> {}]>>
AgeNear30  == <<[field |-> "age", kind |-> "dict", value |-> 0, ops |-> {<<"$near", 30>>}]>>
AgeMax30   == <<[field |-> "age", kind |-> "dict", value |-> 0, ops |-> {<<"max", 30>>}]>>

BaseQuery ==
    [traversal_type |-> "ARCHIMEDEAN", start_position |-> <<0, 0>>,
     radius |-> 1000, growth_rate |-> 1000, max_depth |-> 3,
     criteria |-> NoCriteria, optimization_level |-> "ADVANCED",
     max_results |-> 1000, timeout_seconds |-> 30]

Queries ==
    { BaseQuery,
      [BaseQuery EXCEPT !.max_results = 1],
      [BaseQuery EXCEPT !.timeout_seconds = 1],
      [BaseQuery EXCEPT !.max_depth = 0],
      [BaseQuery EXCEPT !.radius = 100, !.max_depth = 7],
      [BaseQuery EXCEPT !.criteria = AgeGt25],
      [BaseQuery EXCEPT !.criteria = AgeMin26],
      [BaseQuery EXCEPT !.criteria = AgeIs30],
      [BaseQuery EXCEPT !.criteria = AgeHas0],
      [BaseQuery EXCEPT !.criteria = ScoreIs1],
      [BaseQuery EXCEPT !.criteria = AgeNear30],
      [BaseQuery EXCEPT !.criteria = AgeMax30],
      [BaseQuery EXCEPT !.radius = 2000, !.max_results = 2],
      [BaseQuery EXCEPT !.start_position = <<1000, 0>>],
      [BaseQuery EXCEPT !.traversal_type = "FIBONACCI"],
      [BaseQuery EXCEPT !.traversal_type = "HYPERBOLIC"],
      [BaseQuery EXCEPT !.traversal_type = "EXPONENTIAL"] }

\* the number of timeout checks the clock lets pass before
\* time.time() - query.created_at exceeds query.timeout_seconds
Expiries == {0, NoExpiry}

\* a traversal of a handful of nodes outlasts only the shortest timeout
ExpiriesOf(query) ==
    IF query.timeout_seconds < BaseQuery.timeout_seconds THEN Expiries
    ELSE {NoExpiry}

(***************************************************************************)
(* str(value) of a non-negative integer, as its sequence of digits, and    *)
(* the substring test of "condition['contains'] not in str(value)".        *)
(***************************************************************************)
RECURSIVE Str(_)
Str(n) == IF n < 10 THEN <<n>> ELSE Str(n \div 10) \o <<n % 10>>

IsSubstring(sub, s) ==
    \E i \in 0..(Len(s) - Len(sub)) :
        \A j \in 1..Len(sub) : s[i + j] = sub[j]

HasKey(ops, key) == \E p \in ops : p[1] = key
Get(ops, key) == (CHOOSE p \in ops : p[1] = key)[2]

\* one (field, condition) item of the loop of _meets_query_criteria: "fail"
\* when the item makes the method return False, "TypeError" when a str value
\* is ordered against a number, "pass" when the loop goes on.  The criteria
\* values of the model are numbers, but for 'contains', a str.
CriterionOutcome(node, c) ==
    IF c.field \notin DOMAIN node.data THEN "fail"
    ELSE LET value == node.data[c.field]
             is_str == node.types[c.field] = "str"
         IN  IF c.kind = "dict"
             THEN IF HasKey(c.ops, "min") /\ is_str THEN "TypeError"
                  ELSE IF HasKey(c.ops, "min") /\ value < Get(c.ops, "min")
                  THEN "fail"
                  ELSE IF HasKey(c.ops, "max") /\ is_str THEN "TypeError"
                  ELSE IF HasKey(c.ops, "max") /\ value > Get(c.ops, "max")
                  THEN "fail"
                  ELSE IF HasKey(c.ops, "equals")
                          /\ (is_str \/ value # Get(c.ops, "equals"))
                  THEN "fail"
                  ELSE IF HasKey(c.ops, "contains")
                          /\ ~IsSubstring(Get(c.ops, "contains"),
                                          IF is_str THEN value ELSE Str(value))
                  THEN "fail"
                  ELSE "pass"
             ELSE IF is_str \/ value # c.value THEN "fail" ELSE "pass"

\* the loop of _meets_query_criteria from item i: the first outcome that is
\* not "pass"
RECURSIVE CriteriaOutcome(_, _, _)
CriteriaOutcome(node, criteria, i) ==
    IF i > Len(criteria) THEN "pass"
    ELSE IF CriterionOutcome(node, criteria[i]) = "pass"
    THEN CriteriaOutcome(node, criteria, i + 1)
    ELSE CriterionOutcome(node, criteria[i])

\* SpiralQueryEngine._meets_query_criteria: "pass" for True, "fail" for
\* False, "TypeError" when the comparison raises
MeetsQueryCriteria(node, query) == CriteriaOutcome(node, query.criteria, 1)

\* SpiralQueryEngine._generate_cache_key: md5 of the JSON of these fields,
\* taken as injective
GenerateCacheKey(query) ==
    [traversal_type |-> query.traversal_type,
     start_position |-> query.start_position,
     radius |-> query.radius,
     growth_rate |-> query.growth_rate,
     max_depth |-> query.max_depth,
     criteria |-> query.criteria,
     optimization_level |-> query.optimization_level]

(***************************************************************************)
(* Geometry of the traversal.                                              *)
(***************************************************************************)
\* the r of SpiralQueryEngine._calculate_spiral_position at angle k * 0.1
SpiralR(k, radius, traversal_type, growth_rate) ==
    CASE traversal_type = "EXPONENTIAL" -> MulMilli(radius, Exp(growth_rate, k))
      [] traversal_type = "FIBONACCI"   -> PhiTab[k + 1]
      [] traversal_type = "ARCHIMEDEAN" -> radius + (growth_rate * k) \div 10
      [] traversal_type = "LOGARITHMIC" -> MulMilli(radius, Exp(growth_rate, k))
      [] traversal_type = "HYPERBOLIC"  ->
            \* radius / (angle + 1e-6)
            IF k = 0 THEN radius * 1000 * 1000 ELSE (radius * 10) \div k
      [] OTHER -> MulMilli(radius, Exp(growth_rate, k))

\* SpiralQueryEngine._calculate_spiral_position
CalculateSpiralPosition(k, radius, traversal_type, growth_rate) ==
    LET r == SpiralR(k, radius, traversal_type, growth_rate)
    IN  <<MulMilli(r, Cos(k)), MulMilli(r, Sin(k))>>

\* SpiralQueryEngine._update_spiral_radius
UpdateSpiralRadius(current_radius, traversal_type, growth_rate) ==
    CASE traversal_type = "EXPONENTIAL" -> MulMilli(current_radius, Exp(growth_rate, 1))
      [] traversal_type = "FIBONACCI"   -> (current_radius * 11) \div 10
      [] traversal_type = "ARCHIMEDEAN" -> current_radius + growth_rate \div 10
      [] traversal_type = "LOGARITHMIC" -> MulMilli(current_radius, Exp(growth_rate, 1))
      [] traversal_type = "HYPERBOLIC"  -> (current_radius * 95) \div 100
      [] OTHER -> (current_radius * 105) \div 100

\* list.sort(key=...) of (node_id, key) pairs, ascending and stable: the ids
\* of `ids` (dict order is id order) ordered by key
RECURSIVE SortedBy(_, _)
SortedBy(ids, key) ==
    IF ids = {} THEN <<>>
    ELSE LET best == CHOOSE n \in ids :
                        \A m \in ids : key[n] < key[m] \/ (key[n] = key[m] /\ n <= m)
         IN  <<best>> \o SortedBy(ids \ {best}, key)

Take(s, n) == SubSeq(s, 1, IF Len(s) < n THEN Len(s) ELSE n)

MaxStartNodes == 10
MaxNearby == 5

\* SpiralQueryEngine._select_start_nodes
SelectStartNodes(query, nodes) ==
    LET d2 == [n \in DOMAIN nodes |->
                 Dist2(nodes[n].position[1] - query.start_position[1],
                       nodes[n].position[2] - query.start_position[2])]
        inside == {n \in DOMAIN nodes :
                     Within(nodes[n].position[1] - query.start_position[1],
                            nodes[n].position[2] - query.start_position[2],
                            query.radius)}
    IN  Take(SortedBy(inside, d2), MaxStartNodes)

\* SpiralQueryEngine._find_nodes_at_position: relevance 1/(1+distance+depth*0.1)
\* descending is distance ascending
FindNodesAtPosition(target, nodes, visited_nodes, search_radius) ==
    LET cand == {n \in DOMAIN nodes \ visited_nodes :
                    Within(nodes[n].position[1] - target[1],
                           nodes[n].position[2] - target[2], search_radius)}
        d2 == [n \in cand |-> Dist2(nodes[n].position[1] - target[1],
                                    nodes[n].position[2] - target[2])]
    IN  Take(SortedBy(cand, d2), MaxNearby)

(***************************************************************************)
(* The traversal.  A call's working state st:                              *)
(*   nodes           the node map, with the access statistics it writes    *)
(*   visited         visited_nodes                                         *)
(*   result_nodes    result_nodes (node references, as ids)                *)
(*   traversal_path  traversal_path                                        *)
(*   discovered      discovered_nodes of the current _spiral_traverse      *)
(*   checks          timeout checks made so far in this call               *)
(*   timed_out       a timeout check has broken a traversal loop           *)
(*   now             the clock value the call stamps accesses with         *)
(*   error           "none", or the exception that has left the traversal  *)
(***************************************************************************)
\* QueryNode.update_access
UpdateAccessStampOnly(node, now) ==
    [node EXCEPT !.last_accessed = now]

UpdateAccess(node, now) ==
    [node EXCEPT !.last_accessed = now, !.access_count = @ + 1]

\* "time.time() - query.created_at > query.timeout_seconds" at the check
\* numbered `checks` (from 0) of a call whose clock lets `expiry` checks pass
TimeoutElapsed(checks, expiry) == expiry # NoExpiry /\ checks >= expiry

\* the condition of the while loop of _spiral_traverse
LoopGuardInclusive(depth, query, discovered) ==
    depth <= query.max_depth /\ Len(discovered) < query.max_results

LoopGuard(depth, query, discovered) ==
    depth < query.max_depth /\ Len(discovered) < query.max_results

\* the body of the "for node_id in nearby_nodes" loop of _spiral_traverse
\* for a node that is considered; outcome is what _meets_query_criteria did
ProcessNode(node_id, outcome, depth, current_radius, pos, st) ==
    IF outcome = "TypeError" THEN [st EXCEPT !.error = "TypeError"]
    ELSE IF outcome = "pass"
    THEN [st EXCEPT
            !.discovered = Append(@, node_id),
            !.result_nodes = Append(@, node_id),
            !.visited = @ \cup {node_id},
            !.nodes[node_id] = UpdateAccess(@, st.now),
            !.traversal_path = Append(@,
                [step |-> Len(st.traversal_path),
                 angle |-> depth,
                 radius |-> current_radius,
                 position |-> pos,
                 node_id |-> node_id,
                 depth |-> depth])]
    ELSE st

\* the "for node_id in nearby_nodes" loop of _spiral_traverse, from index i
RECURSIVE ProcessNearby(_, _, _, _, _, _, _)
ProcessNearby(nearby, i, query, depth, current_radius, pos, st) ==
    IF i > Len(nearby) \/ st.error # "none" THEN st
    ELSE IF /\ nearby[i] \notin st.visited
            /\ Len(st.discovered) < query.max_results
    THEN ProcessNearby(nearby, i + 1, query, depth, current_radius, pos,
             ProcessNode(nearby[i], MeetsQueryCriteria(st.nodes[nearby[i]], query),
                         depth, current_radius, pos, st))
    ELSE ProcessNearby(nearby, i + 1, query, depth, current_radius, pos, st)

\* the while loop of _spiral_traverse; current_angle is depth * 0.1
RECURSIVE TraverseLoop(_, _, _, _, _)

\* the end of one pass of the while loop, st1 being the state after the
\* for loop: the spiral parameters are updated and the timeout is checked
EndOfPass(query, expiry, depth, current_radius, st1) ==
    IF st1.error # "none" THEN st1
    ELSE IF TimeoutElapsed(st1.checks, expiry)
    THEN [st1 EXCEPT !.checks = @ + 1, !.steps = @ + 1, !.timed_out = TRUE]
    ELSE TraverseLoop(query, expiry, depth + 1,
             UpdateSpiralRadius(current_radius, query.traversal_type,
                                query.growth_rate),
             [st1 EXCEPT !.checks = @ + 1, !.steps = @ + 1])

\* one pass of the while loop at the spiral position pos
Pass(query, expiry, depth, current_radius, pos, st) ==
    EndOfPass(query, expiry, depth, current_radius,
        ProcessNearby(FindNodesAtPosition(pos, st.nodes, st.visited, query.radius),
                      1, query, depth, current_radius, pos, st))

TraverseLoop(query, expiry, depth, current_radius, st) ==
    IF LoopGuard(depth, query, st.discovered)
    THEN Pass(query, expiry, depth, current_radius,
              CalculateSpiralPosition(depth, current_radius,
                  query.traversal_type, query.growth_rate),
              st)
    ELSE st

\* SpiralQueryEngine._spiral_traverse; its return value is st.discovered
SpiralTraverse(start_node_id, query, expiry, st) ==
    IF start_node_id \in st.visited
    THEN [st EXCEPT !.discovered = <<>>]
    ELSE LET st1 == [st EXCEPT !.visited = @ \cup {start_node_id},
                               !.discovered = <<>>]
         IN  IF start_node_id \notin DOMAIN st.nodes
             THEN st1
             ELSE TraverseLoop(query, expiry, 0, query.radius, st1)

\* "result_nodes.extend(node_results)", st1 being the state in which
\* _spiral_traverse returned or raised
ExtendResults(st1) ==
    IF st1.error # "none" THEN st1
    ELSE [st1 EXCEPT !.result_nodes = @ \o st1.discovered]

\* the "for start_node_id in start_nodes" loop of execute_spiral_query
RECURSIVE RunStartNodes(_, _, _, _, _)
RunStartNodes(start_nodes, i, query, expiry, st) ==
    IF \/ i > Len(start_nodes)
       \/ Len(st.result_nodes) >= query.max_results
       \/ st.error # "none"
    THEN st
    ELSE RunStartNodes(start_nodes, i + 1, query, expiry,
             ExtendResults(SpiralTraverse(start_nodes[i], query, expiry, st)))

\* the cache-miss part of execute_spiral_query up to the result object
RunQuery(query, nodes, expiry, now) ==
    RunStartNodes(SelectStartNodes(query, nodes), 1, query, expiry,
        [nodes |-> nodes, visited |-> {}, result_nodes |-> <<>>,
         traversal_path |-> <<>>, discovered |-> <<>>,
         checks |-> 0, steps |-> 0, timed_out |-> FALSE, now |-> now,
         error |-> "none"])

\* the result dict of execute_spiral_query; the 'data' and 'metadata' of a
\* result node are the node's own dicts, reached through its id
MakeResult(query, st, execution_time) ==
    [traversal_type |-> query.traversal_type,
     start_position |-> query.start_position,
     radius |-> query.radius,
     growth_rate |-> query.growth_rate,
     max_depth |-> query.max_depth,
     result_count |-> Len(st.result_nodes),
     execution_time |-> execution_time,
     cache_hit |-> FALSE,
     traversal_path |-> st.traversal_path,
     result_nodes |-> [i \in 1..Len(st.result_nodes) |->
                         [id |-> st.result_nodes[i],
                          position |-> st.nodes[st.result_nodes[i]].position]],
     query_metadata |-> [criteria |-> query.criteria,
                         optimization_level |-> query.optimization_level,
                         max_results |-> query.max_results,
                         timeout_seconds |-> query.timeout_seconds]]

\* the cache-hit branch: the cached dict itself is marked and returned
MarkCacheHitKeepTime(cached_result) ==
    [cached_result EXCEPT !.cache_hit = TRUE]

MarkCacheHit(cached_result) ==
    [cached_result EXCEPT !.cache_hit = TRUE, !.execution_time = 0]

\* perf_counter differences a call can measure
ExecutionTimes == {2}

TraversalTypes == {q.traversal_type : q \in Queries}

QInit ==
    /\ data_nodes \in {[n \in S |-> MkNode(n)] : S \in NodeMaps}
    /\ query_cache = <<>>
    /\ execution_stats = [t \in TraversalTypes |-> 0]
    /\ query_times = <<>>
    /\ cache_hits = 0
    /\ cache_misses = 0
    /\ calls = <<>>

ExecuteCachedCountingExecution(query) ==
    LET cache_key == GenerateCacheKey(query)
    IN  /\ Len(calls) < MaxCalls
        /\ cache_key \in DOMAIN query_cache
        /\ cache_hits' = cache_hits + 1
        /\ query_cache' = [query_cache EXCEPT ![cache_key] = MarkCacheHit(@)]
        /\ execution_stats' = [execution_stats EXCEPT
                                 ![query.traversal_type] = @ + 1]
        /\ calls' = Append(calls,
              [query |-> query, result |-> query_cache'[cache_key],
               key_was_cached |-> TRUE, timed_out |-> FALSE, steps |-> 0,
               start_nodes |-> <<>>, nodes_before |-> data_nodes,
               status |-> "ok", nodes_after |-> data_nodes])
        /\ UNCHANGED <<data_nodes, query_times, cache_misses>>
        /\ UNCHANGED <<idvars, cvars, lvars>>

\* execute_spiral_query served from the cache
ExecuteCached(query) ==
    LET cache_key == GenerateCacheKey(query)
    IN  /\ Len(calls) < MaxCalls
        /\ cache_key \in DOMAIN query_cache
        /\ cache_hits' = cache_hits + 1
        /\ query_cache' = [query_cache EXCEPT ![cache_key] = MarkCacheHit(@)]
        /\ calls' = Append(calls,
              [query |-> query, result |-> query_cache'[cache_key],
               key_was_cached |-> TRUE, timed_out |-> FALSE, steps |-> 0,
               start_nodes |-> <<>>, nodes_before |-> data_nodes,
               status |-> "ok", nodes_after |-> data_nodes])
        /\ UNCHANGED <<data_nodes, execution_stats, query_times, cache_misses>>
        /\ UNCHANGED <<idvars, cvars, lvars>>

\* what execute_spiral_query returns, or raises, after a traversal that
\* ended in st
ResultOf(query, st, execution_time) ==
    IF st.error # "none" THEN [raised |-> st.error]
    ELSE MakeResult(query, st, execution_time)

\* execute_spiral_query after its traversal has ended in st; an exception
\* of the traversal leaves the method before the result is built, cached
\* and counted
CompleteTraversal(query, st, execution_time) ==
    LET cache_key == GenerateCacheKey(query)
        raised == st.error # "none"
        result == ResultOf(query, st, execution_time)
    IN  /\ data_nodes' = st.nodes
        /\ query_cache' = IF raised THEN query_cache
                          ELSE [k \in DOMAIN query_cache \cup {cache_key} |->
                                  IF k = cache_key THEN result ELSE query_cache[k]]
        /\ execution_stats' = IF raised THEN execution_stats
                              ELSE [execution_stats EXCEPT
                                      ![query.traversal_type] = @ + 1]
        /\ query_times' = IF raised THEN query_times
                          ELSE Append(query_times, execution_time)
        /\ calls' = Append(calls,
              [query |-> query, result |-> result,
               key_was_cached |-> FALSE, timed_out |-> st.timed_out,
               steps |-> st.steps,
               start_nodes |-> SelectStartNodes(query, data_nodes),
               nodes_before |-> data_nodes,
               status |-> IF raised THEN st.error ELSE "ok",
               nodes_after |-> st.nodes])

\* execute_spiral_query on a cache miss
ExecuteTraversal(query, expiry, execution_time) ==
    /\ Len(calls) < MaxCalls
    /\ GenerateCacheKey(query) \notin DOMAIN query_cache
    /\ cache_misses' = cache_misses + 1
    /\ CompleteTraversal(query,
           RunQuery(query, data_nodes, expiry, Len(calls) + 1), execution_time)
    /\ UNCHANGED cache_hits
    /\ UNCHANGED <<idvars, cvars, lvars>>

\* The caller of call i changes the result it was given.  The dict returned
\* by a miss is not the cached dict (the cache holds result.copy()), but
\* the copy is shallow: both hold the same 'result_nodes' and
\* 'traversal_path' lists.  The dict returned by a hit is the cached dict.

\* result['result_nodes'].clear()
CallerClearsResultNodes(i) ==
    LET cache_key == GenerateCacheKey(calls[i].query)
    IN  /\ i \in 1..Len(calls)
        /\ calls[i].status = "ok"
        /\ query_cache[cache_key].result_nodes # <<>>
        /\ query_cache' = [query_cache EXCEPT ![cache_key].result_nodes = <<>>]
        /\ UNCHANGED <<data_nodes, execution_stats, query_times, cache_hits,
                       cache_misses, calls>>
        /\ UNCHANGED <<idvars, cvars, lvars>>

\* result['traversal_path'] = []
CallerReplacesTraversalPath(i) ==
    LET cache_key == GenerateCacheKey(calls[i].query)
    IN  /\ i \in 1..Len(calls)
        /\ calls[i].status = "ok"
        /\ calls[i].key_was_cached
        /\ query_cache[cache_key].traversal_path # <<>>
        /\ query_cache' = [query_cache EXCEPT ![cache_key].traversal_path = <<>>]
        /\ UNCHANGED <<data_nodes, execution_stats, query_times, cache_hits,
                       cache_misses, calls>>
        /\ UNCHANGED <<idvars, cvars, lvars>>

QNext ==
    \/ \E query \in Queries : ExecuteCached(query)
    \/ \E query \in Queries :
          \E expiry \in ExpiriesOf(query), t \in ExecutionTimes :
             ExecuteTraversal(query, expiry, t)
    \/ \E i \in 1..MaxCalls : CallerClearsResultNodes(i)
    \/ \E i \in 1..MaxCalls : CallerReplacesTraversalPath(i)

\* the values a caller writes into a node's payload
AgeUpdates == {31}

\* The caller changes the payload of a node of its map in place:
\* data_nodes[n].data['age'] = age.  A result node holds the node's data
\* dict itself ('data': node.data), so the dict a result shows is the one
\* the map holds.
CallerMutatesNodeData(n, age) ==
    /\ n \in DOMAIN data_nodes
    /\ data_nodes[n].data.age = NodeAge[n]
    /\ data_nodes' = [data_nodes EXCEPT ![n].data.age = age]
    /\ UNCHANGED <<query_cache, execution_stats, query_times, cache_hits,
                   cache_misses, calls>>
    /\ UNCHANGED <<idvars, cvars, lvars>>

\* the engine and a caller that edits its nodes between calls
LiveNext ==
    \/ QNext
    \/ \E n \in NodeIds, age \in AgeUpdates : CallerMutatesNodeData(n, age)


(***************************************************************************)
(* A node map with more nodes around one spiral position than              *)
(* _find_nodes_at_position returns for it, and engines that are replaced   *)
(* by fresh ones between calls.                                            *)
(***************************************************************************)
DenseNodeIds == 1..9

DenseNodePosition ==
    <<<<0, 0>>, <<0 - 500, 0>>, <<1000, 0>>, <<1100, 0>>, <<1200, 0>>,
      <<1300, 0>>, <<1400, 0>>, <<1000, 900>>, <<3000, 300>>>>

MkDenseNode(n) ==
    [id |-> n, position |-> DenseNodePosition[n], data |-> [age |-> 19 + n],
     types |-> [age |-> "int"],
     last_accessed |-> 0, access_count |-> 0]

DenseQueries ==
    { [BaseQuery EXCEPT !.growth_rate = g, !.max_depth = d, !.max_results = m] :
          g \in {1000, 10000}, d \in {1, 2, 3}, m \in {6, 1000} }

\* the caller replaces its engine by SpiralQueryEngine(); its node map stays
FreshEngine ==
    /\ query_cache # <<>>
    /\ query_cache' = <<>>
    /\ execution_stats' = [t \in TraversalTypes |-> 0]
    /\ query_times' = <<>>
    /\ cache_hits' = 0
    /\ cache_misses' = 0
    /\ UNCHANGED <<data_nodes, calls>>
    /\ UNCHANGED <<idvars, cvars, lvars>>

DenseNext ==
    \/ \E query \in DenseQueries : ExecuteCached(query)
    \/ \E query \in DenseQueries, t \in ExecutionTimes :
          ExecuteTraversal(query, NoExpiry, t)
    \/ FreshEngine

(***************************************************************************)
(* The identifier engine (PiDIndexationEngine).  A string is the sequence  *)
(* of its characters.                                                      *)
(***************************************************************************)
HexChars == <<"0", "1", "2", "3", "4", "5", "6", "7", "8", "9",
              "a", "b", "c", "d", "e", "f">>

Dot == <<".">>

\* format(n, 'x'), n >= 0
RECURSIVE Hex(_)
Hex(n) == IF n < 16 THEN <<HexChars[n + 1]>>
          ELSE Hex(n \div 16) \o <<HexChars[(n % 16) + 1]>>

\* str(n), n >= 0
RECURSIVE Dec(_)
Dec(n) == IF n < 10 THEN <<HexChars[n + 1]>>
          ELSE Dec(n \div 10) \o <<HexChars[(n % 10) + 1]>>

\* f"{n:0{width}d}"
RECURSIVE ZeroPad(_, _)
ZeroPad(str, width) == IF Len(str) >= width THEN str ELSE ZeroPad(<<"0">> \o str, width)

\* len(s.split('.'))
Components(str) == Cardinality({i \in 1..Len(str) : str[i] = "."}) + 1

\* Python's a % n for n # 0
PyMod(a, n) == IF n > 0 THEN a % n ELSE 0 - ((0 - a) % (0 - n))

\* pow(b, e, m)
RECURSIVE PowMod(_, _, _)
PowMod(b, e, m) == IF e = 0 THEN 1 % m ELSE (b * PowMod(b, e - 1, m)) % m

\* the loop of _bbp_digit_extraction from k, with the running sum s
RECURSIVE BbpLoop(_, _, _)
BbpLoop(position, k, sum) ==
    IF k > position THEN sum
    ELSE LET r == position - k
         IN  BbpLoop(position, k + 1,
                 (sum + PowMod(16, r, 8 * k + 1) \div (8 * k + 1)
                      - PowMod(16, r, 8 * k + 4) \div (8 * k + 4)
                      - PowMod(16, r, 8 * k + 5) \div (8 * k + 5)
                      - PowMod(16, r, 8 * k + 6) \div (8 * k + 6)) % 16)

\* PiDIndexationEngine._bbp_digit_extraction
BbpDigitExtraction(position) == BbpLoop(position, 0, 0) % 16

\* PiDIndexationEngine._extract_pi_sequence_bbp
RECURSIVE ExtractPiSequenceBbp(_)
ExtractPiSequenceBbp(length) ==
    IF length = 0 THEN <<>>
    ELSE ExtractPiSequenceBbp(length - 1) \o Dec(BbpDigitExtraction(length - 1))

\* the common_lengths of _precompute_massive_cache that a call of this model
\* can ask for
CommonLengths == {10, 20, 30}

\* PiDIndexationEngine.massive_pi_cache after _precompute_massive_cache
MassivePiCache == [l \in CommonLengths |-> ExtractPiSequenceBbp(l)]

PoolSequenceLength == 20

\* PrecisionLevel.LOW
Precision == 100

\* CalculationResult.digits of calculate_pi_chudnovsky at PrecisionLevel.LOW in
\* the decimal context the engine's constructor leaves (prec = precision)
PiDigitValues ==
    <<1, 4, 1, 5, 9, 2, 6, 5, 3, 5, 8, 9, 7, 9, 3, 0, 5, 1, 7, 4, 8, 1, 6, 1, 5,
      2, 4, 8, 7, 1, 2, 0, 3, 0, 4, 4, 5, 5, 7, 4, 4, 8, 1, 2, 4, 5, 2, 8, 2, 6,
      4, 6, 1, 8, 4, 4, 8, 2, 5, 3, 1, 0, 5, 8, 1, 9, 8, 4, 9, 8, 0, 9, 6, 1, 6,
      5, 3, 6, 1, 0, 3, 5, 5, 2, 2, 5, 9, 6, 0, 0, 6, 8, 6, 3, 8, 5, 0, 4, 9>>

\* EnhancedPiSequenceGenerator._get_pi_digits
PiDigits == [i \in 1..Len(PiDigitValues) |-> HexChars[PiDigitValues[i] + 1]]

\* pi_digits[start:start + length]
Slice(start, length) ==
    SubSeq(PiDigits, start + 1,
           IF start + length > Len(PiDigits) THEN Len(PiDigits) ELSE start + length)

\* the collision loop of generate_sequence: the first position from `pos`
\* whose slice is unused, or -1 when the loop never ends
RECURSIVE NextFreePosition(_, _, _, _, _)
NextFreePosition(pos, length, n, generated, fuel) ==
    IF Slice(pos, length) \notin generated THEN pos
    ELSE IF fuel = 0 THEN 0 - 1
    ELSE NextFreePosition(PyMod(pos + 1, n), length, n, generated, fuel - 1)

\* EnhancedPiSequenceGenerator.generate_sequence with ensure_uniqueness=True:
\* the outcome and the generator's fields after the call
GenerateSequence(length, generated, count, collisions) ==
    LET Raise(status) == [status |-> status, sequence |-> <<>>,
                          start_position |-> 0, generated |-> generated,
                          count |-> count, collisions |-> collisions]
        n == Len(PiDigits) - length
        start == PyMod(count * length, n)
        collided == Slice(start, length) \in generated
        position == IF collided
                    THEN NextFreePosition(start, length, n, generated, Abs(n))
                    ELSE start
    IN  IF length > Precision \/ length < 1
        THEN Raise("ValueError")
        ELSE IF n = 0
        THEN Raise("ZeroDivisionError")
        ELSE IF position < 0
        THEN [Raise("hang") EXCEPT !.collisions = collisions + 1]
        ELSE [status |-> "ok",
              sequence |-> Slice(position, length),
              start_position |-> position,
              generated |-> generated \cup {Slice(position, length)},
              count |-> count + 1,
              collisions |-> IF collided THEN collisions + 1 ELSE collisions]

(***************************************************************************)
(* Spiral components.  A coordinate is kept in millionths.                 *)
(***************************************************************************)
Million == 1000 * 1000

\* f"{float(v):.6f}"
Format6(v) ==
    (IF v < 0 THEN <<"-">> ELSE <<>>)
        \o Dec(Abs(v) \div Million) \o Dot \o ZeroPad(Dec(Abs(v) % Million), 6)

\* str(v) of a Decimal: sign, integer digits, point, fraction digits (the
\* digits after the sixth are left out)
StrDecimal(v) == Format6(v)

\* f"{float(v):.6f}".replace('.', '').replace('-', 'n')[:8]
Compact(v) ==
    LET plain == SelectSeq(Format6(v), LAMBDA c : c # ".")
        named == [i \in 1..Len(plain) |-> IF plain[i] = "-" THEN "n" ELSE plain[i]]
    IN  Take(named, 8)

\* calculate_spiral_point((index * 137.5) % (2 * math.pi), 'fibonacci')
BatchSpiralPoint ==
    << <<1000000, 0>>, <<4083618, -3655066>>, <<483861, -4355317>>,
       <<-2034266, -2852889>>, <<-2733350, -614921>>, <<-1956425, 1091240>>,
       <<-583700, 1693449>>, <<555297, 1320211>> >>

\* calculate_spiral_point(angle_seed, 'fibonacci') for the angle seeded by the
\* sha256 of a sequence: the cached sequences and the 16-digit slices of the
\* first calls of generate_sequence
SpiralPointOfSequence(sequence) ==
    CASE sequence = MassivePiCache[10] -> <<-2696061, -322499>>
      [] sequence = MassivePiCache[20] -> <<-1974845, -2928331>>
      [] sequence = MassivePiCache[30] -> <<855406, 976178>>
      [] sequence = Slice(0, 16)  -> <<4881211, -3075897>>
      [] sequence = Slice(16, 16) -> <<-2312966, 658312>>
      [] sequence = Slice(32, 16) -> <<924687, 849403>>
      [] sequence = Slice(48, 16) -> <<-2609802, -1733796>>
      [] sequence = Slice(64, 16) -> <<-2638620, -70558>>
      [] sequence = Slice(80, 16) -> <<-1808373, 1221681>>
      [] OTHER -> <<1000000, 0>>

\* the spiral component of generate_unique_identifier and generate_single_id;
\* <<>> stands for None
SpiralComponent(point) == Compact(point[1]) \o Compact(point[2])

\* one entry of _pre_generate_id_pool, i from 0
PoolEntry(i, base_sequence, time) ==
    LET angle1000 == (i * 137500) % 360000
        spiral_x == angle1000 % 10000
        spiral_y == (angle1000 + 90000) % 10000
        spiral == ZeroPad(Dec(spiral_x), 4) \o ZeroPad(Dec(spiral_y), 4)
        stamp == Hex(time + i)
    IN  [identifier |-> base_sequence \o Dot \o spiral \o Dot \o stamp,
         pi_sequence |-> base_sequence,
         spiral_component |-> spiral,
         timestamp_component |-> stamp]

\* PiDIndexationEngine._pre_generate_id_pool
PreGenerateIdPool(count, time) ==
    [i \in 1..count |->
        PoolEntry(i - 1,
                  IF PoolSequenceLength \in DOMAIN MassivePiCache
                  THEN MassivePiCache[PoolSequenceLength]
                  ELSE <<"1", "4", "1", "5", "9", "2", "6", "5", "3", "5",
                         "8", "9", "7", "9", "3", "2", "3", "8", "4", "6">>,
                  time)]

\* the re-stamping of a popped pool entry
Restamp(id_data, time) ==
    [id_data EXCEPT
        !.timestamp_component = Hex(time),
        !.identifier = id_data.pi_sequence \o Dot \o id_data.spiral_component
                          \o Dot \o Hex(time)]

\* generate_single_id of generate_batch_identifiers
GenerateSingleId(index, base_sequence, include_spiral, time) ==
    LET stamp == Hex(time + index)
        point == BatchSpiralPoint[index + 1]
        spiral == IF include_spiral THEN SpiralComponent(point) ELSE <<>>
    IN  [identifier |->
            IF spiral # <<>>
            THEN base_sequence \o Dot \o StrDecimal(point[1]) \o Dot
                    \o StrDecimal(point[2]) \o Dot \o stamp
            ELSE base_sequence \o Dot \o stamp,
         pi_sequence |-> base_sequence,
         spiral_component |-> spiral,
         timestamp_component |-> stamp]

(***************************************************************************)
(* The identifier engine's operations.                                     *)
(***************************************************************************)
Lengths == {16, 20}
BatchCounts == {PoolCount, PoolCount + 1}
ClockSteps == {0, 1}

\* the lengths generate_sequence is called with directly: a common one and
\* the longest one that leaves more than zero start positions
SequenceLengths == {16, Len(PiDigitValues) - 1}

Threads == 1..NumThreads

\* a thread that is in no call
Idle == [pc |-> "idle"]

\* AdvancedSpiralCalculator.__init__, LockManager.__init__ and the
\* transactions as Transaction.__init__ leaves them
LInit ==
    /\ calculation_cache = <<>>
    /\ locks = <<>>
    /\ waiting_transactions = <<>>
    /\ locks_held = [t \in Threads |-> {}]

CInit ==
    /\ computation_cache = <<>>
    /\ threads = [t \in Threads |-> Idle]
    /\ LInit

\* a call of generate_sequence is spinning in its collision loop; it holds
\* the generator's lock for ever
Hung == \E i \in 1..Len(returns) : returns[i].status = "hang"

IdInit ==
    /\ id_pool = PreGenerateIdPool(PoolCount, 0)
    /\ process_pool = "open"
    /\ thread_pool = "open"
    /\ generated_sequences = {}
    /\ generation_count = 0
    /\ collision_count = 0
    /\ operation_count = 0
    /\ clock = 0
    /\ returns = <<>>

\* generate_unique_identifier served from the pre-generated pool
GenerateFromPool(length, include_spiral, dt) ==
    /\ Len(returns) < MaxOps
    /\ Len(id_pool) > 0
    /\ LET id_data == Restamp(id_pool[Len(id_pool)], clock)
       IN  returns' = Append(returns,
              [op |-> "unique", path |-> "pool", status |-> "ok",
               count |-> 1, ids |-> <<id_data>>,
               include_spiral |-> include_spiral])
    /\ id_pool' = SubSeq(id_pool, 1, Len(id_pool) - 1)
    /\ operation_count' = operation_count + 1
    /\ clock' = clock + dt
    /\ UNCHANGED <<process_pool, thread_pool, generated_sequences,
                   generation_count, collision_count>>
    /\ UNCHANGED <<qvars, cvars, lvars>>

\* generate_unique_identifier on an empty pool, for a length of the massive
\* cache
GenerateFromCache(length, include_spiral, dt) ==
    /\ Len(returns) < MaxOps
    /\ Len(id_pool) = 0
    /\ length \in DOMAIN MassivePiCache
    /\ LET pi_sequence == MassivePiCache[length]
           spiral == IF include_spiral
                     THEN SpiralComponent(SpiralPointOfSequence(pi_sequence))
                     ELSE <<>>
           stamp == Hex(clock)
       IN  returns' = Append(returns,
              [op |-> "unique", path |-> "cache", status |-> "ok", count |-> 1,
               include_spiral |-> include_spiral,
               ids |-> <<[identifier |->
                            IF spiral # <<>>
                            THEN pi_sequence \o Dot \o spiral \o Dot \o stamp
                            ELSE pi_sequence \o Dot \o stamp,
                          pi_sequence |-> pi_sequence,
                          spiral_component |-> spiral,
                          timestamp_component |-> stamp]>>])
    /\ operation_count' = operation_count + 1
    /\ clock' = clock + dt
    /\ UNCHANGED <<id_pool, process_pool, thread_pool, generated_sequences,
                   generation_count, collision_count>>
    /\ UNCHANGED <<qvars, cvars, lvars>>

\* generate_unique_identifier on an empty pool, through generate_sequence
GenerateFromSequence(length, include_spiral, dt) ==
    /\ Len(returns) < MaxOps
    /\ Len(id_pool) = 0
    /\ length \notin DOMAIN MassivePiCache
    /\ ~Hung
    /\ LET g == GenerateSequence(length, generated_sequences,
                                 generation_count, collision_count)
           spiral == IF include_spiral
                     THEN SpiralComponent(SpiralPointOfSequence(g.sequence))
                     ELSE <<>>
           stamp == Hex(clock)
       IN  /\ generated_sequences' = g.generated
           /\ generation_count' = g.count
           /\ collision_count' = g.collisions
           /\ operation_count' = IF g.status = "ok" THEN operation_count + 1
                                 ELSE operation_count
           /\ returns' = Append(returns,
                 IF g.status = "ok"
                 THEN [op |-> "unique", path |-> "sequence", status |-> "ok",
                       count |-> 1, include_spiral |-> include_spiral,
                       ids |-> <<[identifier |->
                                    IF spiral # <<>>
                                    THEN g.sequence \o Dot \o spiral \o Dot \o stamp
                                    ELSE g.sequence \o Dot \o stamp,
                                  pi_sequence |-> g.sequence,
                                  spiral_component |-> spiral,
                                  timestamp_component |-> stamp]>>]
                 ELSE [op |-> "unique", path |-> "sequence", status |-> g.status,
                       count |-> 1, include_spiral |-> include_spiral,
                       ids |-> <<>>])
    /\ clock' = clock + dt
    /\ UNCHANGED <<id_pool, process_pool, thread_pool>>
    /\ UNCHANGED <<qvars, cvars, lvars>>

\* generate_batch_identifiers when the pool covers the count
BatchFromPool(count, length, include_spiral) ==
    /\ Len(returns) < MaxOps
    /\ Len(id_pool) >= count
    /\ returns' = Append(returns,
          [op |-> "batch", path |-> "pool", status |-> "ok", count |-> count,
           ids |-> [i \in 1..count |->
                      Restamp(id_pool[Len(id_pool) - (i - 1)], clock + (i - 1))]])
    /\ id_pool' = SubSeq(id_pool, 1, Len(id_pool) - count)
    /\ clock' = clock + 1
    /\ UNCHANGED <<process_pool, thread_pool, generated_sequences,
                   generation_count, collision_count, operation_count>>
    /\ UNCHANGED <<qvars, cvars, lvars>>

\* the executor the fallback of generate_batch_identifiers gets its results
\* from: submit raises RuntimeError on an executor that a "with" has left
BatchExecutor ==
    IF process_pool = "open" THEN "process"
    ELSE IF thread_pool = "open" THEN "thread"
    ELSE "none"

\* generate_batch_identifiers when the pool does not cover the count
BatchFallback(count, length, include_spiral) ==
    /\ Len(returns) < MaxOps
    /\ Len(id_pool) < count
    /\ (length \in DOMAIN MassivePiCache \/ ~Hung)
    /\ LET cached == length \in DOMAIN MassivePiCache
           g == GenerateSequence(length, generated_sequences,
                                 generation_count, collision_count)
           base_ok == cached \/ g.status = "ok"
           base_sequence == IF cached THEN MassivePiCache[length] ELSE g.sequence
           executor == BatchExecutor
           ids == [i \in 1..count |->
                     GenerateSingleId(i - 1, base_sequence, include_spiral, clock)]
       IN  /\ generated_sequences' = IF cached THEN generated_sequences ELSE g.generated
           /\ generation_count' = IF cached THEN generation_count ELSE g.count
           /\ collision_count' = IF cached THEN collision_count ELSE g.collisions
           /\ process_pool' = IF base_ok THEN "shutdown" ELSE process_pool
           /\ thread_pool' = IF base_ok /\ process_pool = "shutdown"
                             THEN "shutdown" ELSE thread_pool
           /\ returns' = Append(returns,
                 IF ~base_ok
                 THEN [op |-> "batch", path |-> "fallback", status |-> g.status,
                       count |-> count, ids |-> <<>>]
                 ELSE IF executor = "none"
                 THEN [op |-> "batch", path |-> "fallback",
                       status |-> "RuntimeError", count |-> count, ids |-> <<>>]
                 ELSE [op |-> "batch", path |-> executor, status |-> "ok",
                       count |-> count, ids |-> ids])
    /\ clock' = clock + 1
    /\ UNCHANGED <<id_pool, operation_count>>
    /\ UNCHANGED <<qvars, cvars, lvars>>

\* EnhancedPiSequenceGenerator.generate_sequence called on the engine's
\* sequence_generator
CallGenerateSequence(length) ==
    /\ Len(returns) < MaxOps
    /\ ~Hung
    /\ LET g == GenerateSequence(length, generated_sequences,
                                 generation_count, collision_count)
       IN  /\ generated_sequences' = g.generated
           /\ generation_count' = g.count
           /\ collision_count' = g.collisions
           /\ returns' = Append(returns,
                 [op |-> "sequence", path |-> "sequence", status |-> g.status,
                  count |-> 1, length |-> length,
                  sequence |-> g.sequence,
                  start_position |-> g.start_position,
                  count_before |-> generation_count,
                  issued_before |-> generated_sequences])
    /\ UNCHANGED <<id_pool, process_pool, thread_pool, operation_count, clock>>
    /\ UNCHANGED <<qvars, cvars, lvars>>

IdNext ==
    \/ \E length \in SequenceLengths : CallGenerateSequence(length)
    \/ \E length \in Lengths, include_spiral \in BOOLEAN, dt \in ClockSteps :
          \/ GenerateFromPool(length, include_spiral, dt)
          \/ GenerateFromCache(length, include_spiral, dt)
          \/ GenerateFromSequence(length, include_spiral, dt)
    \/ \E count \in BatchCounts, length \in Lengths, include_spiral \in BOOLEAN :
          \/ BatchFromPool(count, length, include_spiral)
          \/ BatchFallback(count, length, include_spiral)

\* the lengths at the edges of generate_sequence's argument check: none,
\* every available digit, the precision, one more than the precision
BoundaryLengths == {0, Len(PiDigitValues), Precision, Precision + 1}

\* generate_sequence called with common and with boundary lengths
SequenceNext ==
    \E length \in SequenceLengths \cup BoundaryLengths :
        CallGenerateSequence(length)

(***************************************************************************)
(* generate_unique_identifier called by concurrent threads.  The method    *)
(* takes no lock: the test of the pool, the pop and the two halves of      *)
(* "self.operation_count += 1" are separate steps of a thread.  The        *)
(* synchronous path is one step: generate_sequence runs under the          *)
(* generator's lock and the rest works on the thread's own values.         *)
(***************************************************************************)
\* the calls entered so far, returned or not
CallsStarted == Len(returns) + Cardinality({t \in Threads : threads[t].pc # "idle"})

\* the identifier dict of the synchronous path of generate_unique_identifier
SyncIdentifier(pi_sequence, include_spiral, time) ==
    LET spiral == IF include_spiral
                  THEN SpiralComponent(SpiralPointOfSequence(pi_sequence))
                  ELSE <<>>
    IN  [identifier |-> IF spiral # <<>>
                        THEN pi_sequence \o Dot \o spiral \o Dot \o Hex(time)
                        ELSE pi_sequence \o Dot \o Hex(time),
         pi_sequence |-> pi_sequence,
         spiral_component |-> spiral,
         timestamp_component |-> Hex(time)]

\* "if hasattr(self, 'id_pool') and self.id_pool:"
UidEnter(t, length, include_spiral) ==
    /\ threads[t].pc = "idle"
    /\ CallsStarted < MaxOps
    /\ threads' = [threads EXCEPT ![t] =
          [pc |-> IF Len(id_pool) > 0 THEN "pop" ELSE "sync",
           length |-> length, include_spiral |-> include_spiral]]
    /\ UNCHANGED <<idvars, qvars, computation_cache, lvars>>

\* "id_data = self.id_pool.pop()" and the re-stamping of the popped dict;
\* list.pop() of an empty list raises IndexError
UidPop(t) ==
    /\ threads[t].pc = "pop"
    /\ IF Len(id_pool) = 0
       THEN /\ returns' = Append(returns,
                  [op |-> "unique", path |-> "pool", status |-> "IndexError",
                   count |-> 1, ids |-> <<>>, thread |-> t,
                   include_spiral |-> threads[t].include_spiral,
                   pool_index |-> 0])
            /\ threads' = [threads EXCEPT ![t] = Idle]
            /\ UNCHANGED id_pool
       ELSE /\ id_pool' = SubSeq(id_pool, 1, Len(id_pool) - 1)
            /\ threads' = [threads EXCEPT ![t] =
                  [pc |-> "load_count", path |-> "pool",
                   include_spiral |-> threads[t].include_spiral,
                   pool_index |-> Len(id_pool),
                   id_data |-> Restamp(id_pool[Len(id_pool)], clock)]]
            /\ UNCHANGED returns
    /\ UNCHANGED <<process_pool, thread_pool, generated_sequences,
                   generation_count, collision_count, operation_count, clock>>
    /\ UNCHANGED <<qvars, computation_cache, lvars>>

\* the synchronous path up to the identifier
UidSync(t) ==
    /\ threads[t].pc = "sync"
    /\ threads[t].length \in DOMAIN MassivePiCache \/ ~Hung
    /\ LET length == threads[t].length
           cached == length \in DOMAIN MassivePiCache
           g == GenerateSequence(length, generated_sequences,
                                 generation_count, collision_count)
           ok == cached \/ g.status = "ok"
           pi_sequence == IF cached THEN MassivePiCache[length] ELSE g.sequence
       IN  /\ generated_sequences' = IF cached THEN generated_sequences ELSE g.generated
           /\ generation_count' = IF cached THEN generation_count ELSE g.count
           /\ collision_count' = IF cached THEN collision_count ELSE g.collisions
           /\ threads' = [threads EXCEPT ![t] =
                 IF ok
                 THEN [pc |-> "load_count",
                       path |-> IF cached THEN "cache" ELSE "sequence",
                       include_spiral |-> threads[t].include_spiral,
                       pool_index |-> 0,
                       id_data |-> SyncIdentifier(pi_sequence,
                                       threads[t].include_spiral, clock)]
                 ELSE Idle]
           /\ returns' = IF ok THEN returns
                         ELSE Append(returns,
                                [op |-> "unique", path |-> "sequence",
                                 status |-> g.status, count |-> 1, ids |-> <<>>,
                                 thread |-> t,
                                 include_spiral |-> threads[t].include_spiral,
                                 pool_index |-> 0])
    /\ UNCHANGED <<id_pool, process_pool, thread_pool, operation_count, clock>>
    /\ UNCHANGED <<qvars, computation_cache, lvars>>

\* "self.operation_count += 1": the read
UidLoadCount(t) ==
    /\ threads[t].pc = "load_count"
    /\ threads' = [threads EXCEPT ![t] =
          [pc |-> "store_count", path |-> threads[t].path,
           include_spiral |-> threads[t].include_spiral,
           pool_index |-> threads[t].pool_index,
           id_data |-> threads[t].id_data, loaded |-> operation_count]]
    /\ UNCHANGED <<idvars, qvars, computation_cache, lvars>>

\* "self.operation_count += 1": the write, and the return
UidStoreCount(t) ==
    /\ threads[t].pc = "store_count"
    /\ operation_count' = threads[t].loaded + 1
    /\ returns' = Append(returns,
          [op |-> "unique", path |-> threads[t].path, status |-> "ok",
           count |-> 1, ids |-> <<threads[t].id_data>>, thread |-> t,
           include_spiral |-> threads[t].include_spiral,
           pool_index |-> threads[t].pool_index])
    /\ threads' = [threads EXCEPT ![t] = Idle]
    /\ UNCHANGED <<id_pool, process_pool, thread_pool, generated_sequences,
                   generation_count, collision_count, clock>>
    /\ UNCHANGED <<qvars, computation_cache, lvars>>

PoolNext ==
    \E t \in Threads :
        \/ \E length \in Lengths, include_spiral \in BOOLEAN :
              UidEnter(t, length, include_spiral)
        \/ UidPop(t)
        \/ UidSync(t)
        \/ UidLoadCount(t)
        \/ UidStoreCount(t)

(***************************************************************************)
(* The pi calculator (AdvancedPiCalculator) and the digit extraction.      *)
(***************************************************************************)
MaxPiCalls == 2      \* calculator calls in one behaviour
MaxPosition == 20    \* the highest digit position asked for

\* the precisions a calculator is constructed with
Precisions == {0 - 50, 0 - 10, 0 - 1, 0, 1, 2}

PiAlgorithms == {"CHUDNOVSKY", "MACHIN", "SPIGOT"}

\* the precision + 50 the constructor gives the decimal context
ContextBuffer == 50

\* the max_iterations default of calculate_pi_chudnovsky
MaxIterations == 10000

\* the precisions of Precisions at which the quotient chud_c / pi_sum, rounded
\* half up to the context's precision, ends in a digit rounded up
RoundedUp == {1}

\* str(pi_value) in a context of precision + 50 significant digits
PiStr(precision) ==
    LET n == precision + ContextBuffer - 1
    IN  <<"3", ".">> \o
        [i \in 1..n |->
            HexChars[PiDigitValues[i] + 1
                     + (IF i = n /\ precision \in RoundedUp THEN 1 ELSE 0)]]

\* str.find(c): the index from 0 of the first c, or -1
Find(str, c) ==
    IF \E i \in 1..Len(str) : str[i] = c
    THEN (CHOOSE i \in 1..Len(str) :
             str[i] = c /\ \A j \in 1..(i - 1) : str[j] # c) - 1
    ELSE 0 - 1

\* str[a:b] for a >= 0: a negative b counts from the end
PySlice(str, a, b) ==
    LET stop == IF b < 0
                THEN (IF b + Len(str) < 0 THEN 0 ELSE b + Len(str))
                ELSE (IF b > Len(str) THEN Len(str) ELSE b)
    IN  SubSeq(str, a + 1, stop)

\* AdvancedPiCalculator(precision, algorithm).calculate_pi() on the cache
\* `cache` of that calculator: the outcome and the cache after it
CalculatePi(precision, algorithm, cache) ==
    LET cache_key == <<"chud", precision, MaxIterations>>
        pi_str == PiStr(precision)
        decimal_pos == Find(pi_str, ".")
        digits == PySlice(pi_str, decimal_pos + 1, decimal_pos + 1 + precision)
    IN  IF precision + ContextBuffer < 1
        THEN \* getcontext().prec = precision + 50
             [status |-> "ValueError", digits |-> <<>>, cache |-> cache]
        ELSE IF algorithm \notin {"CHUDNOVSKY", "MACHIN"}
        THEN [status |-> "ValueError", digits |-> <<>>, cache |-> cache]
        ELSE IF algorithm = "MACHIN"
        THEN \* CalculationResult(...) is built without digits
             [status |-> "TypeError", digits |-> <<>>, cache |-> cache]
        ELSE IF cache_key \in DOMAIN cache
        THEN [status |-> "ok", digits |-> cache[cache_key], cache |-> cache]
        ELSE [status |-> "ok", digits |-> digits,
              cache |-> [k \in DOMAIN cache \cup {cache_key} |->
                           IF k = cache_key THEN digits ELSE cache[k]]]

\* a calculator is constructed and asked for pi; computation_cache holds
\* the caches of the calculators, whose keys carry the precision
ComputeDigits(precision, algorithm) ==
    LET r == CalculatePi(precision, algorithm, computation_cache)
    IN  /\ Len(returns) < MaxPiCalls
        /\ computation_cache' = r.cache
        /\ returns' = Append(returns,
              [op |-> "calculate_pi", precision |-> precision,
               algorithm |-> algorithm, status |-> r.status,
               digits |-> r.digits, cache_before |-> computation_cache,
               cache_after |-> r.cache])
        /\ UNCHANGED <<id_pool, process_pool, thread_pool, generated_sequences,
                       generation_count, collision_count, operation_count, clock>>
        /\ UNCHANGED <<qvars, threads, lvars>>

\* _bbp_digit_extraction(position) next to the digit at that position of the
\* digits of the series
ExtractDigit(position) ==
    /\ Len(returns) < MaxPiCalls
    /\ returns' = Append(returns,
          [op |-> "digit", position |-> position, status |-> "ok",
           extracted |-> BbpDigitExtraction(position),
           series |-> PiDigitValues[position + 1]])
    /\ UNCHANGED <<id_pool, process_pool, thread_pool, generated_sequences,
                   generation_count, collision_count, operation_count, clock>>
    /\ UNCHANGED <<qvars, cvars, lvars>>

PiNext ==
    \/ \E precision \in Precisions, algorithm \in PiAlgorithms :
          ComputeDigits(precision, algorithm)
    \/ \E position \in 0..MaxPosition : ExtractDigit(position)

(***************************************************************************)
(* The spiral coordinate mapper (AdvancedSpiralCalculator).  Angles are    *)
(* whole radians, lengths are thousandths; an infinite Decimal is the      *)
(* string "inf" or "-inf".                                                 *)
(***************************************************************************)
\* the angles calculate_spiral_point is called with
Thetas == {0 - 1, 0, 1, 2}

SpiralTypes == {"archimedean", "logarithmic", "fibonacci", "hyperbolic",
                "lituus", "exponential", "custom", "spherical"}

\* math.cos and math.sin of the angles of Thetas, from -1 on
CosOfTheta == <<540, 1000, 540, 0 - 417>>
SinOfTheta == <<0 - 842, 0, 841, 909>>

\* e^(0.2 theta), phi^(2 theta / pi), e^(0.3 theta) and 1 / sqrt(theta)
\* at the angles of Thetas, from -1 on (from 1 on for the square root)
LogarithmicTab == <<818, 1000, 1221, 1491>>
FibonacciTab == <<736, 1000, 1358, 1845>>
ExponentialTab == <<740, 1000, 1349, 1822>>
InverseRootTab == <<1000, 707>>

\* a Decimal: finite (inf = 0, v thousandths), Infinity (inf = 1) or
\* -Infinity (inf = -1)
Finite(v) == [inf |-> 0, v |-> v]
Infinity == [inf |-> 1, v |-> 0]

\* a Decimal operation that returned r, or raised
Returned(r) == [status |-> "ok", r |-> r]
Raised(exception) == [status |-> exception, r |-> Finite(0)]

\* the radius r of calculate_spiral_point, or the exception of its branch
SpiralRadius(theta, spiral_type) ==
    CASE spiral_type = "archimedean" -> Returned(Finite(1000 + 100 * theta))
      [] spiral_type = "logarithmic" -> Returned(Finite(LogarithmicTab[theta + 2]))
      [] spiral_type = "fibonacci" -> Returned(Finite(FibonacciTab[theta + 2]))
      [] spiral_type = "hyperbolic" ->
            IF theta = 0 THEN Returned(Infinity)
            ELSE Returned(Finite(1000 \div theta))
      [] spiral_type = "lituus" ->
            IF theta = 0 THEN Returned(Infinity)
            ELSE IF theta < 0 THEN Raised("InvalidOperation")
            ELSE Returned(Finite(InverseRootTab[theta]))
      [] spiral_type = "exponential" -> Returned(Finite(ExponentialTab[theta + 2]))
      [] spiral_type = "custom" ->
            Returned(Finite(((500 + 100 * theta) * (500 + 100 * theta)) \div 1000))
      [] OTHER -> Raised("ValueError")

\* Decimal multiplication r * c by a finite c under the default context,
\* which traps InvalidOperation: Infinity times zero raises
DecimalMul(r, c) ==
    IF r.inf # 0
    THEN IF c = 0 THEN Raised("InvalidOperation")
         ELSE Returned([inf |-> IF c > 0 THEN r.inf ELSE 0 - r.inf, v |-> 0])
    ELSE Returned(Finite(MulMilli(r.v, c)))

\* "x = r * cos(theta)", "y = r * sin(theta)" and "result = (x, y)"
CartesianPoint(x, y) ==
    IF x.status # "ok" THEN [status |-> x.status, point |-> <<>>]
    ELSE IF y.status # "ok" THEN [status |-> y.status, point |-> <<>>]
    ELSE [status |-> "ok", point |-> <<x.r, y.r>>]

\* the outcome of the uncached part of calculate_spiral_point, radius
\* being the outcome of its branch
SpiralPoint(theta, radius) ==
    IF radius.status # "ok" THEN [status |-> radius.status, point |-> <<>>]
    ELSE CartesianPoint(DecimalMul(radius.r, CosOfTheta[theta + 2]),
                        DecimalMul(radius.r, SinOfTheta[theta + 2]))

\* what a call of calculate_spiral_point does, given the outcome of its
\* uncached part: a returned point is cached, an exception caches nothing
StoreSpiralPoint(theta, spiral_type, outcome) ==
    /\ calculation_cache' =
          IF outcome.status = "ok"
          THEN [k \in DOMAIN calculation_cache \cup {<<spiral_type, theta>>} |->
                  IF k = <<spiral_type, theta>> THEN outcome.point
                  ELSE calculation_cache[k]]
          ELSE calculation_cache
    /\ returns' = Append(returns,
          [op |-> "spiral_point", theta |-> theta, spiral_type |-> spiral_type,
           status |-> outcome.status, point |-> outcome.point,
           cached |-> FALSE])

\* AdvancedSpiralCalculator.calculate_spiral_point
CalculateSpiralPoint(theta, spiral_type) ==
    /\ Len(returns) < MaxPiCalls
    /\ IF <<spiral_type, theta>> \in DOMAIN calculation_cache
       THEN /\ returns' = Append(returns,
                  [op |-> "spiral_point", theta |-> theta,
                   spiral_type |-> spiral_type, status |-> "ok",
                   point |-> calculation_cache[<<spiral_type, theta>>],
                   cached |-> TRUE])
            /\ UNCHANGED calculation_cache
       ELSE StoreSpiralPoint(theta, spiral_type,
                SpiralPoint(theta, SpiralRadius(theta, spiral_type)))
    /\ UNCHANGED <<id_pool, process_pool, thread_pool, generated_sequences,
                   generation_count, collision_count, operation_count, clock>>
    /\ UNCHANGED <<qvars, cvars, locks, waiting_transactions, locks_held>>

SpiralNext ==
    \E theta \in Thetas, spiral_type \in SpiralTypes :
        CalculateSpiralPoint(theta, spiral_type)

(***************************************************************************)
(* LockManager.  A transaction is the thread that runs it.  locks maps a   *)
(* resource to {lock_type -> transaction}: one transaction per lock type.  *)
(* locks_held[t] is Transaction.locks_held, the keys "resource:lock_type"  *)
(* as pairs.  A transaction whose lock is refused is in the wait loop of   *)
(* acquire_lock (pc "waiting") until the lock is free or the timeout is    *)
(* reached.                                                                *)
(***************************************************************************)
Resources == {"users", "orders"}

LockTypes == {"SHARED", "EXCLUSIVE", "INTENT"}

\* LockManager._can_acquire_lock
CanAcquireLock(resource, lock_type) ==
    IF resource \notin DOMAIN locks THEN TRUE
    ELSE IF lock_type = "SHARED" THEN "EXCLUSIVE" \notin DOMAIN locks[resource]
    ELSE IF lock_type = "EXCLUSIVE" THEN DOMAIN locks[resource] = {}
    ELSE TRUE

\* list.remove(transaction): the first occurrence
RemoveWaiting(waiting, t) ==
    LET i == CHOOSE k \in 1..Len(waiting) :
                 waiting[k] = t /\ \A m \in 1..(k - 1) : waiting[m] # t
    IN  [k \in 1..(Len(waiting) - 1) |->
            IF k < i THEN waiting[k] ELSE waiting[k + 1]]

\* self.locks[resource][lock_type] = transaction on the lock table lk
GrantLock(lk, t, resource, lock_type) ==
    [r \in DOMAIN lk |->
        IF r = resource
        THEN [ty \in DOMAIN lk[r] \cup {lock_type} |->
                 IF ty = lock_type THEN t ELSE lk[r][ty]]
        ELSE lk[r]]

\* the lock table once acquire_lock has made sure the resource is in it
WithResource(resource) ==
    [r \in DOMAIN locks \cup {resource} |->
        IF r \in DOMAIN locks THEN locks[r] ELSE <<>>]

\* acquire_lock up to the start of its wait loop
AcquireLock(t, resource, lock_type) ==
    LET waiting == [r \in DOMAIN waiting_transactions \cup {resource} |->
                       IF r \in DOMAIN locks THEN waiting_transactions[r]
                       ELSE <<>>]
    IN  /\ threads[t].pc = "idle"
        /\ IF CanAcquireLock(resource, lock_type)
           THEN /\ locks' = GrantLock(WithResource(resource), t, resource, lock_type)
                /\ locks_held' = [locks_held EXCEPT
                                    ![t] = @ \cup {<<resource, lock_type>>}]
                /\ waiting_transactions' = waiting
                /\ UNCHANGED threads
           ELSE /\ locks' = WithResource(resource)
                /\ waiting_transactions' =
                      [waiting EXCEPT ![resource] =
                          IF \E k \in 1..Len(@) : @[k] = t THEN @
                          ELSE Append(@, t)]
                /\ threads' = [threads EXCEPT ![t] =
                      [pc |-> "waiting", resource |-> resource,
                       lock_type |-> lock_type]]
                /\ UNCHANGED locks_held
        /\ UNCHANGED <<qvars, idvars, computation_cache, calculation_cache>>

\* a pass of the wait loop of acquire_lock that finds the lock free
AcquireLockAfterWait(t) ==
    LET resource == threads[t].resource
        lock_type == threads[t].lock_type
    IN  /\ threads[t].pc = "waiting"
        /\ CanAcquireLock(resource, lock_type)
        /\ locks' = GrantLock(locks, t, resource, lock_type)
        /\ locks_held' = [locks_held EXCEPT
                            ![t] = @ \cup {<<resource, lock_type>>}]
        /\ waiting_transactions' =
              [waiting_transactions EXCEPT ![resource] = RemoveWaiting(@, t)]
        /\ threads' = [threads EXCEPT ![t] = Idle]
        /\ UNCHANGED <<qvars, idvars, computation_cache, calculation_cache>>

\* the wait loop of acquire_lock reaches the timeout: False is returned
AcquireLockTimeout(t) ==
    /\ threads[t].pc = "waiting"
    /\ waiting_transactions' =
          [waiting_transactions EXCEPT
              ![threads[t].resource] = RemoveWaiting(@, t)]
    /\ threads' = [threads EXCEPT ![t] = Idle]
    /\ UNCHANGED <<locks, locks_held>>
    /\ UNCHANGED <<qvars, idvars, computation_cache, calculation_cache>>

\* LockManager.release_lock
ReleaseLock(t, resource, lock_type) ==
    /\ threads[t].pc = "idle"
    /\ <<resource, lock_type>> \in locks_held[t]
    /\ locks_held' = [locks_held EXCEPT ![t] = @ \ {<<resource, lock_type>>}]
    /\ locks' =
          IF /\ resource \in DOMAIN locks
             /\ lock_type \in DOMAIN locks[resource]
             /\ locks[resource][lock_type] = t
          THEN [locks EXCEPT ![resource] =
                   [ty \in DOMAIN @ \ {lock_type} |-> @[ty]]]
          ELSE locks
    /\ UNCHANGED <<threads, waiting_transactions>>
    /\ UNCHANGED <<qvars, idvars, computation_cache, calculation_cache>>

LockNext ==
    \E t \in Threads :
        \/ \E resource \in Resources, lock_type \in LockTypes :
              AcquireLock(t, resource, lock_type)
        \/ AcquireLockAfterWait(t)
        \/ AcquireLockTimeout(t)
        \/ \E resource \in Resources, lock_type \in LockTypes :
              ReleaseLock(t, resource, lock_type)

(***************************************************************************)
(* Concurrent callers of calculate_pi.  calculate_pi_chudnovsky looks its  *)
(* key up, runs the series and stores the result without holding           *)
(* thread_lock (clear_cache alone takes it); calculate_pi_machin has no    *)
(* cache.  A caller is at "series" between the lookup and the store.  At   *)
(* the precisions of RacePrecisions the digits do not depend on the        *)
(* decimal context of the calling thread.                                  *)
(***************************************************************************)
\* the precisions of the calculators the concurrent callers share
RacePrecisions == {1, 2}

\* the calls of calculate_pi entered so far, returned or not
PiCallsStarted ==
    Len(returns) + Cardinality({t \in Threads : threads[t].pc # "idle"})

\* calculate_pi up to the end of the cache lookup of the algorithm's method
CalculatePiEnter(t, precision, algorithm) ==
    LET cache_key == <<"chud", precision, MaxIterations>>
    IN  /\ threads[t].pc = "idle"
        /\ PiCallsStarted < MaxPiCalls + 1
        /\ IF algorithm \notin {"CHUDNOVSKY", "MACHIN"}
           THEN /\ returns' = Append(returns,
                      [op |-> "calculate_pi", precision |-> precision,
                       algorithm |-> algorithm, status |-> "ValueError",
                       digits |-> <<>>, computed |-> FALSE, thread |-> t])
                /\ UNCHANGED threads
           ELSE IF algorithm = "CHUDNOVSKY" /\ cache_key \in DOMAIN computation_cache
           THEN /\ returns' = Append(returns,
                      [op |-> "calculate_pi", precision |-> precision,
                       algorithm |-> algorithm, status |-> "ok",
                       digits |-> computation_cache[cache_key],
                       computed |-> FALSE, thread |-> t])
                /\ UNCHANGED threads
           ELSE /\ threads' = [threads EXCEPT ![t] =
                      [pc |-> "series", precision |-> precision,
                       algorithm |-> algorithm]]
                /\ UNCHANGED returns
        /\ UNCHANGED <<id_pool, process_pool, thread_pool, generated_sequences,
                       generation_count, collision_count, operation_count, clock>>
        /\ UNCHANGED <<qvars, computation_cache, lvars>>

\* the series of the algorithm's method, the result object and, for
\* Chudnovsky, the store into computation_cache
CalculatePiSeries(t) ==
    LET precision == threads[t].precision
        algorithm == threads[t].algorithm
        r == CalculatePi(precision, algorithm, <<>>)
    IN  /\ threads[t].pc = "series"
        /\ computation_cache' =
              IF r.status = "ok"
              THEN [k \in DOMAIN computation_cache \cup DOMAIN r.cache |->
                      IF k \in DOMAIN r.cache THEN r.cache[k]
                      ELSE computation_cache[k]]
              ELSE computation_cache
        /\ returns' = Append(returns,
              [op |-> "calculate_pi", precision |-> precision,
               algorithm |-> algorithm, status |-> r.status,
               digits |-> r.digits, computed |-> TRUE, thread |-> t])
        /\ threads' = [threads EXCEPT ![t] = Idle]
        /\ UNCHANGED <<id_pool, process_pool, thread_pool, generated_sequences,
                       generation_count, collision_count, operation_count, clock>>
        /\ UNCHANGED <<qvars, lvars>>

PiRaceNext ==
    \E t \in Threads :
        \/ \E precision \in RacePrecisions, algorithm \in PiAlgorithms :
              CalculatePiEnter(t, precision, algorithm)
        \/ CalculatePiSeries(t)

(***************************************************************************)
(* Concurrent callers of execute_spiral_query on one engine and one node   *)
(* map.  The method takes no lock (thread_lock is held by clear_cache      *)
(* only), so the calls interleave.  A traversal reads positions and        *)
(* payloads only, which no call writes, and its visited set is the call's  *)
(* own: which nodes a call accesses, and in which order, is settled when   *)
(* it starts.  The writes to the shared nodes are the steps: update_access *)
(* stamps last_accessed and reads access_count in one step and writes the  *)
(* sum back in the next.                                                   *)
(***************************************************************************)
\* the queries the concurrent callers choose from; both match node 3
RaceQueries == {BaseQuery, [BaseQuery EXCEPT !.criteria = AgeIs30]}

\* the calls of execute_spiral_query entered so far, returned or not
QueriesStarted ==
    Len(calls) + Cardinality({t \in Threads : threads[t].pc # "idle"})

\* the nodes a traversal calls update_access on, in order: one per step of
\* its traversal_path
AccessOrder(st) ==
    [k \in 1..Len(st.traversal_path) |-> st.traversal_path[k].node_id]

\* a thread that has passed the cache check of execute_spiral_query and
\* whose traversal will end in st
Entered(query, st) ==
    [pc |-> IF AccessOrder(st) = <<>> THEN "finish" ELSE "load",
     query |-> query, st |-> st, todo |-> AccessOrder(st), loaded |-> 0,
     nodes_before |-> data_nodes, returned_before |-> Len(calls)]

\* execute_spiral_query from its entry to the first update_access: the
\* cache check, and on a hit the whole cache-hit branch
ExecuteSpiralQueryEnter(t, query) ==
    LET cache_key == GenerateCacheKey(query)
    IN  /\ threads[t].pc = "idle"
        /\ QueriesStarted < MaxCalls
        /\ IF cache_key \in DOMAIN query_cache
           THEN /\ cache_hits' = cache_hits + 1
                /\ query_cache' =
                      [query_cache EXCEPT ![cache_key] = MarkCacheHit(@)]
                /\ calls' = Append(calls,
                      [query |-> query, result |-> query_cache'[cache_key],
                       key_was_cached |-> TRUE, timed_out |-> FALSE,
                       steps |-> 0, start_nodes |-> <<>>,
                       nodes_before |-> data_nodes, status |-> "ok",
                       nodes_after |-> data_nodes,
                       returned_before |-> Len(calls), thread |-> t])
                /\ UNCHANGED <<cache_misses, threads>>
           ELSE /\ cache_misses' = cache_misses + 1
                /\ threads' = [threads EXCEPT ![t] =
                      Entered(query, RunQuery(query, data_nodes, NoExpiry,
                                              QueriesStarted + 1))]
                /\ UNCHANGED <<cache_hits, query_cache, calls>>
        /\ UNCHANGED <<data_nodes, execution_stats, query_times>>
        /\ UNCHANGED <<idvars, computation_cache, lvars>>

\* update_access: "self.last_accessed = time.time()" and the read of
\* self.access_count in "self.access_count += 1"
UpdateAccessLoad(t) ==
    LET node_id == Head(threads[t].todo)
    IN  /\ threads[t].pc = "load"
        /\ data_nodes' = [data_nodes EXCEPT
                            ![node_id].last_accessed = threads[t].st.now]
        /\ threads' = [threads EXCEPT
                         ![t].loaded = data_nodes[node_id].access_count,
                         ![t].pc = "store"]
        /\ UNCHANGED <<query_cache, execution_stats, query_times, cache_hits,
                       cache_misses, calls>>
        /\ UNCHANGED <<idvars, computation_cache, lvars>>

\* update_access: the write of "self.access_count += 1"
UpdateAccessStore(t) ==
    LET node_id == Head(threads[t].todo)
    IN  /\ threads[t].pc = "store"
        /\ data_nodes' = [data_nodes EXCEPT
                            ![node_id].access_count = threads[t].loaded + 1]
        /\ threads' = [threads EXCEPT
                         ![t].todo = Tail(@),
                         ![t].pc = IF Len(threads[t].todo) = 1 THEN "finish"
                                   ELSE "load"]
        /\ UNCHANGED <<query_cache, execution_stats, query_times, cache_hits,
                       cache_misses, calls>>
        /\ UNCHANGED <<idvars, computation_cache, lvars>>

\* execute_spiral_query after the traversal: the result object, the cache
\* store and the statistics
ExecuteSpiralQueryFinish(t, execution_time) ==
    LET query == threads[t].query
        cache_key == GenerateCacheKey(query)
        st == threads[t].st
        raised == st.error # "none"
        result == ResultOf(query, st, execution_time)
    IN  /\ threads[t].pc = "finish"
        /\ query_cache' = IF raised THEN query_cache
                          ELSE [k \in DOMAIN query_cache \cup {cache_key} |->
                                  IF k = cache_key THEN result ELSE query_cache[k]]
        /\ execution_stats' = IF raised THEN execution_stats
                              ELSE [execution_stats EXCEPT
                                      ![query.traversal_type] = @ + 1]
        /\ query_times' = IF raised THEN query_times
                          ELSE Append(query_times, execution_time)
        /\ calls' = Append(calls,
              [query |-> query, result |-> result,
               key_was_cached |-> FALSE, timed_out |-> st.timed_out,
               steps |-> st.steps,
               start_nodes |-> SelectStartNodes(query, threads[t].nodes_before),
               nodes_before |-> threads[t].nodes_before,
               status |-> IF raised THEN st.error ELSE "ok",
               nodes_after |-> data_nodes,
               returned_before |-> threads[t].returned_before, thread |-> t])
        /\ threads' = [threads EXCEPT ![t] = Idle]
        /\ UNCHANGED <<data_nodes, cache_hits, cache_misses>>
        /\ UNCHANGED <<idvars, computation_cache, lvars>>

RaceNext ==
    \E t \in Threads :
        \/ \E query \in RaceQueries : ExecuteSpiralQueryEnter(t, query)
        \/ UpdateAccessLoad(t)
        \/ UpdateAccessStore(t)
        \/ \E execution_time \in ExecutionTimes :
              ExecuteSpiralQueryFinish(t, execution_time)

(***************************************************************************)
(* Specifications: the query engine on its own, the identifier engine on   *)
(* its own.                                                                *)
(***************************************************************************)
Init == QInit /\ IdInit /\ CInit

\* the engine over the heterogeneous node map
MixedInit ==
    /\ data_nodes = [n \in NodeIds |-> MkMixedNode(n)]
    /\ query_cache = <<>>
    /\ execution_stats = [t \in TraversalTypes |-> 0]
    /\ query_times = <<>>
    /\ cache_hits = 0
    /\ cache_misses = 0
    /\ calls = <<>>
    /\ IdInit
    /\ CInit

\* a fresh engine over the dense node map
DenseInit ==
    /\ data_nodes = [n \in DenseNodeIds |-> MkDenseNode(n)]
    /\ query_cache = <<>>
    /\ execution_stats = [t \in TraversalTypes |-> 0]
    /\ query_times = <<>>
    /\ cache_hits = 0
    /\ cache_misses = 0
    /\ calls = <<>>
    /\ IdInit
    /\ CInit

IdOnlyInit ==
    /\ IdInit
    /\ QInit
    /\ CInit
    /\ data_nodes = <<>>

Next == QNext

Spec == Init /\ [][Next]_vars

SpecMixed == MixedInit /\ [][Next]_vars

SpecId == IdOnlyInit /\ [][IdNext]_vars

SpecPoolRace == IdOnlyInit /\ [][PoolNext]_vars

SpecPi == IdOnlyInit /\ [][PiNext]_vars

SpecRace == Init /\ [][RaceNext]_vars

SpecLive == Init /\ [][LiveNext]_vars

SpecSpiral == IdOnlyInit /\ [][SpiralNext]_vars

SpecDense == DenseInit /\ [][DenseNext]_vars

SpecPiRace == IdOnlyInit /\ [][PiRaceNext]_vars

SpecLock == IdOnlyInit /\ [][LockNext]_vars

SpecSequence == IdOnlyInit /\ [][SequenceNext]_vars

(***************************************************************************)
(* Properties of the query engine.                                         *)
(***************************************************************************)
CallIndexes == 1..Len(calls)

\* the spec fields a result carries of the query that computed it
ResultSpec(result) ==
    [traversal_type |-> result.traversal_type,
     start_position |-> result.start_position,
     radius |-> result.radius,
     growth_rate |-> result.growth_rate,
     max_depth |-> result.max_depth,
     criteria |-> result.query_metadata.criteria,
     optimization_level |-> result.query_metadata.optimization_level,
     max_results |-> result.query_metadata.max_results,
     timeout_seconds |-> result.query_metadata.timeout_seconds]

ResultIds(result) == {result.result_nodes[k].id : k \in 1..Len(result.result_nodes)}

\* C1: on one engine the first call is computed (cache_hit = false), and a
\* call that repeats the query of an earlier call is served from the cache:
\* cache_hit = true and execution_time = 0.
C1_RepeatedQueryIsCacheHit ==
    /\ Len(calls) >= 1 => calls[1].result.cache_hit = FALSE
    /\ \A i \in CallIndexes : \A j \in CallIndexes :
          (i < j /\ calls[i].query = calls[j].query)
              => /\ calls[j].result.cache_hit = TRUE
                 /\ calls[j].result.execution_time = 0

\* C1 witness: a query was computed and then repeated.
C1_Witness ==
    \E i \in CallIndexes : \E j \in CallIndexes :
        /\ i < j
        /\ calls[i].query = calls[j].query
        /\ calls[i].result.cache_hit = FALSE
        /\ calls[j].result.cache_hit = TRUE

\* C2: a call is served from the cache only by the entry of a query equal to
\* it in every spec field (max_results and timeout_seconds included).
C2_HitOnlyForSameSpec ==
    \A j \in CallIndexes :
        calls[j].result.cache_hit => ResultSpec(calls[j].result) = calls[j].query

\* C3: with criteria {"age": {"$gt": 25}} only nodes whose age is greater
\* than 25 are matched.
C3_GtMatchesOnlyOlder ==
    \A i \in CallIndexes :
        calls[i].query.criteria = AgeGt25
            => \A n \in ResultIds(calls[i].result) :
                  calls[i].nodes_before[n].data.age > 25

\* C4: the number of matched nodes of a result never exceeds max_results.
C4_ResultsWithinMaxResults ==
    \A i \in CallIndexes :
        /\ calls[i].result.result_count <= calls[i].query.max_results
        /\ Len(calls[i].result.result_nodes) <= calls[i].query.max_results

\* C5: a query stopped by its timeout returns a result marked truncated = true
\* with fewer traversal steps than max_depth.
C5_TimeoutMarksTruncated ==
    \A i \in CallIndexes :
        calls[i].timed_out
            => /\ "truncated" \in DOMAIN calls[i].result
               /\ calls[i].result.truncated = TRUE
               /\ Len(calls[i].result.traversal_path) < calls[i].query.max_depth

\* C6: a query against an empty node map returns no matched nodes, an empty
\* traversal path and truncated = false.
C6_EmptyMapEmptyResult ==
    \A i \in CallIndexes :
        DOMAIN calls[i].nodes_before = {}
            => /\ calls[i].result.result_nodes = <<>>
               /\ calls[i].result.traversal_path = <<>>
               /\ "truncated" \in DOMAIN calls[i].result
               /\ calls[i].result.truncated = FALSE

\* C7: a query with max_depth = 0 takes no spiral step, its traversal path is
\* empty and every node it returns is one of the selected start nodes.
C7_ZeroDepthNoStep ==
    \A i \in CallIndexes :
        calls[i].query.max_depth = 0
            => /\ calls[i].steps = 0
               /\ calls[i].result.traversal_path = <<>>
               /\ ResultIds(calls[i].result) \subseteq
                     Range(SelectStartNodes(calls[i].query, calls[i].nodes_before))

\* C7 witness: a max_depth = 0 query was computed with start nodes selected.
C7_Witness ==
    \E i \in CallIndexes :
        /\ calls[i].query.max_depth = 0
        /\ ~calls[i].key_was_cached
        /\ calls[i].start_nodes # <<>>

\* C16: a query whose criteria use an operator key that neither the
\* documented operators nor the engine's own keys contain raises
\* InvalidQueryError.
C16_UnknownOperatorRaises ==
    LET known == {"$gt", "$gte", "$lt", "$lte", "$regex", "$exists",
                  "min", "max", "equals", "contains"}
        Malformed(criteria) ==
            \E k \in 1..Len(criteria) : \E p \in criteria[k].ops : p[1] \notin known
    IN  \A i \in CallIndexes :
            Malformed(calls[i].query.criteria)
                => calls[i].status = "InvalidQueryError"

\* C17: whatever the payloads, a query returns normally, and no node that
\* lacks a criteria field, or whose value cannot be ordered against the
\* criteria value, is among its matched nodes.
C17_MismatchIsNoMatch ==
    \A i \in CallIndexes :
        /\ calls[i].status = "ok"
        /\ \A n \in ResultIds(calls[i].result) :
              \A k \in 1..Len(calls[i].query.criteria) :
                 LET c == calls[i].query.criteria[k]
                     node == calls[i].nodes_before[n]
                 IN  /\ c.field \in DOMAIN node.data
                     /\ (HasKey(c.ops, "min") \/ HasKey(c.ops, "max"))
                           => node.types[c.field] = "int"

\* C18: when two computed queries overlap in time on the same node map and
\* both match a node, then once every call has returned the node's
\* access_count has grown by one for each computed query that matched it
\* (by exactly 2 for two queries): no increment is lost.
C18_NoLostAccessUpdate ==
    (\A t \in Threads : threads[t].pc = "idle")
        => \A n \in DOMAIN data_nodes :
              (\E i \in CallIndexes : \E j \in CallIndexes :
                  /\ i < j
                  /\ calls[j].returned_before < i
                  /\ ~calls[i].key_was_cached /\ ~calls[j].key_was_cached
                  /\ n \in ResultIds(calls[i].result)
                  /\ n \in ResultIds(calls[j].result))
                 => data_nodes[n].access_count
                       = MkNode(n).access_count
                         + Cardinality({i \in CallIndexes :
                               /\ ~calls[i].key_was_cached
                               /\ n \in ResultIds(calls[i].result)})

\* C19: a computed (not cached) query increments the access_count and
\* refreshes the last_accessed of every node it reports as matched, and
\* leaves the access statistics of every other node as they were.
C19_AccessStatsFrame ==
    \A i \in CallIndexes :
        (~calls[i].key_was_cached /\ calls[i].status = "ok")
            => \A n \in DOMAIN calls[i].nodes_before :
                  IF n \in ResultIds(calls[i].result)
                  THEN /\ calls[i].nodes_after[n].access_count
                             = calls[i].nodes_before[n].access_count + 1
                       /\ calls[i].nodes_after[n].last_accessed = i
                  ELSE /\ calls[i].nodes_after[n].access_count
                             = calls[i].nodes_before[n].access_count
                       /\ calls[i].nodes_after[n].last_accessed
                             = calls[i].nodes_before[n].last_accessed

\* C19 witness: a computed query has reported some nodes and not others,
\* among them a node that an earlier query had already accessed.
C19_Witness ==
    \E i \in CallIndexes :
        /\ ~calls[i].key_was_cached /\ calls[i].status = "ok"
        /\ \E n \in ResultIds(calls[i].result) :
              calls[i].nodes_before[n].access_count = 1
        /\ \E n \in DOMAIN calls[i].nodes_before :
              n \notin ResultIds(calls[i].result)

\* C20: a cache hit returns the matched nodes and the traversal path that
\* the computing call returned, whatever the callers did since with the
\* results they were given.
C20_HitReturnsComputedResult ==
    \A i \in CallIndexes : \A j \in CallIndexes :
        (/\ i < j
         /\ ~calls[i].key_was_cached /\ calls[i].status = "ok"
         /\ calls[j].key_was_cached
         /\ GenerateCacheKey(calls[i].query) = GenerateCacheKey(calls[j].query))
            => /\ calls[j].result.result_nodes = calls[i].result.result_nodes
               /\ calls[j].result.traversal_path = calls[i].result.traversal_path

\* the payload that the k-th matched node of a call's result showed when the
\* call returned: the node's own data dict as it was then
ReturnedData(call, k) == call.nodes_after[call.result.result_nodes[k].id].data

\* C21: the matched-node data a cache hit returns is the data the computing
\* call returned, whatever the caller has written into its nodes' payloads
\* since the result was cached.
C21_CacheHoldsNoLiveNodeData ==
    \A i \in CallIndexes : \A j \in CallIndexes :
        (/\ i < j
         /\ ~calls[i].key_was_cached /\ calls[i].status = "ok"
         /\ calls[j].key_was_cached
         /\ GenerateCacheKey(calls[i].query) = GenerateCacheKey(calls[j].query)
         /\ calls[j].result.result_nodes = calls[i].result.result_nodes)
            => \A k \in 1..Len(calls[j].result.result_nodes) :
                  ReturnedData(calls[j], k) = ReturnedData(calls[i], k)

\* the ordered matched nodes of a result
OrderedIds(result) ==
    [k \in 1..Len(result.result_nodes) |-> result.result_nodes[k].id]

\* two node maps hold the same nodes: ids, positions and payloads
SameNodeSet(a, b) ==
    /\ DOMAIN a = DOMAIN b
    /\ \A n \in DOMAIN a : /\ a[n].position = b[n].position
                           /\ a[n].data = b[n].data

\* C23: in the traversal path of a computed query the angle never decreases
\* from one entry to the next, and two computations of one query over the
\* same node set, each by a fresh engine, return the same ordered matched
\* nodes.
C23_AnglesMonotonicAndOrderDeterministic ==
    /\ \A i \in CallIndexes :
          (~calls[i].key_was_cached /\ calls[i].status = "ok")
              => \A k \in 1..(Len(calls[i].result.traversal_path) - 1) :
                    calls[i].result.traversal_path[k].angle
                        <= calls[i].result.traversal_path[k + 1].angle
    /\ \A i \in CallIndexes : \A j \in CallIndexes :
          (/\ i < j
           /\ ~calls[i].key_was_cached /\ calls[i].status = "ok"
           /\ ~calls[j].key_was_cached /\ calls[j].status = "ok"
           /\ calls[i].query = calls[j].query
           /\ SameNodeSet(calls[i].nodes_before, calls[j].nodes_before))
              => OrderedIds(calls[i].result) = OrderedIds(calls[j].result)

\* C24: a traversal stops before max_depth once several consecutive steps
\* have found no new candidate; so a query without criteria and of depth 7
\* whose steps find no node at all makes fewer than max_depth steps from
\* each of its start nodes.
C24_StopsEarlyWithoutCandidates ==
    \A i \in CallIndexes :
        (/\ ~calls[i].key_was_cached /\ calls[i].status = "ok"
         /\ ~calls[i].timed_out
         /\ calls[i].query.criteria = NoCriteria
         /\ calls[i].query.max_depth >= 7
         /\ calls[i].start_nodes # <<>>
         /\ calls[i].result.traversal_path = <<>>)
            => calls[i].steps < Len(calls[i].start_nodes) * calls[i].query.max_depth

\* C26: a computed query collects a node at most once: no id occurs twice
\* in the matched-node list it returns, and its result_count is the number
\* of distinct matched nodes and the number of traversal-path entries.
C26_NodeCollectedOnce ==
    \A i \in CallIndexes :
        (~calls[i].key_was_cached /\ calls[i].status = "ok")
            => /\ \A k \in 1..Len(calls[i].result.result_nodes) :
                     \A m \in 1..Len(calls[i].result.result_nodes) :
                        calls[i].result.result_nodes[k].id
                              = calls[i].result.result_nodes[m].id => k = m
               /\ calls[i].result.result_count
                     = Cardinality(ResultIds(calls[i].result))
               /\ calls[i].result.result_count
                     = Len(calls[i].result.traversal_path)

\* C27: a start node of a computed query that satisfies the query's
\* criteria is among the matched nodes the query returns, unless the
\* result already holds max_results nodes.
C27_StartNodeIsReported ==
    \A i \in CallIndexes :
        (/\ ~calls[i].key_was_cached /\ calls[i].status = "ok"
         /\ ~calls[i].timed_out
         /\ Len(calls[i].result.result_nodes) < calls[i].query.max_results)
            => \A k \in 1..Len(calls[i].start_nodes) :
                  MeetsQueryCriteria(calls[i].nodes_before[calls[i].start_nodes[k]],
                                     calls[i].query) = "pass"
                      => calls[i].start_nodes[k] \in ResultIds(calls[i].result)

\* a step in which execute_spiral_query returns a result from the cache
CacheHitStep ==
    /\ Len(calls') = Len(calls) + 1
    /\ calls'[Len(calls')].key_was_cached

\* C28: a call served from the cache leaves the access_count and the
\* last_accessed of every node, the execution count of every curve, the
\* history of execution times and the set of cache keys as they were, and
\* adds exactly one to cache_hits.
C28_CacheHitFrame ==
    [][CacheHitStep =>
          /\ DOMAIN data_nodes' = DOMAIN data_nodes
          /\ \A n \in DOMAIN data_nodes :
                /\ data_nodes'[n].access_count = data_nodes[n].access_count
                /\ data_nodes'[n].last_accessed = data_nodes[n].last_accessed
          /\ execution_stats' = execution_stats
          /\ query_times' = query_times
          /\ DOMAIN query_cache' = DOMAIN query_cache
          /\ cache_hits' = cache_hits + 1]_vars

\* C28 witness: a call has been served from the cache on an engine whose
\* computed query had matched, and so accessed, some nodes.
C28_Witness ==
    \E i \in CallIndexes :
        /\ calls[i].key_was_cached
        /\ calls[i].result.result_nodes # <<>>
        /\ \E n \in DOMAIN data_nodes : data_nodes[n].access_count > 0
        /\ query_times # <<>>
        /\ cache_hits > 0

(***************************************************************************)
(* Properties of the identifier engine.                                    *)
(***************************************************************************)
ReturnIndexes == 1..Len(returns)

\* C8: every generate_batch_identifiers call returns exactly `count`
\* identifiers and raises nothing.
C8_BatchNeverFails ==
    \A i \in ReturnIndexes :
        returns[i].op = "batch"
            => /\ returns[i].status = "ok"
               /\ Len(returns[i].ids) = returns[i].count

\* C9: every identifier of a batch has exactly 3 dot-delimited components.
C9_BatchIdsHaveThreeComponents ==
    \A i \in ReturnIndexes :
        returns[i].op = "batch"
            => \A k \in 1..Len(returns[i].ids) :
                  Components(returns[i].ids[k].identifier) = 3

\* C10: no two identifiers returned by generate_unique_identifier carry the
\* same pi_sequence.
C10_NoDuplicatePiSequence ==
    \A i \in ReturnIndexes : \A j \in ReturnIndexes :
        (/\ i < j
         /\ returns[i].op = "unique" /\ returns[i].status = "ok"
         /\ returns[j].op = "unique" /\ returns[j].status = "ok")
            => returns[i].ids[1].pi_sequence # returns[j].ids[1].pi_sequence

\* C11: a generate_sequence call whose initial slice was already issued
\* always ends: it returns a slice that was not issued before, or it fails
\* with CollisionLimitExceeded.
C11_CollisionResolutionBounded ==
    \A i \in ReturnIndexes :
        (/\ returns[i].op = "sequence"
         /\ returns[i].status \notin {"ValueError", "ZeroDivisionError"}
         /\ Slice(PyMod(returns[i].count_before * returns[i].length,
                        Len(PiDigits) - returns[i].length),
                  returns[i].length) \in returns[i].issued_before)
            => \/ /\ returns[i].status = "ok"
                  /\ returns[i].sequence \notin returns[i].issued_before
               \/ returns[i].status = "CollisionLimitExceeded"

\* C12: under any interleaving of generate_unique_identifier callers a pool
\* entry goes to at most one caller, and no call ends in an exception: a
\* caller that finds the pool empty, or loses the race for the last entry,
\* gets its identifier from the synchronous path.
C12_PoolExhaustionNeverAnError ==
    /\ \A i \in ReturnIndexes : \A j \in ReturnIndexes :
          (/\ i < j
           /\ returns[i].path = "pool" /\ returns[i].status = "ok"
           /\ returns[j].path = "pool" /\ returns[j].status = "ok")
              => returns[i].pool_index # returns[j].pool_index
    /\ \A i \in ReturnIndexes :
          returns[i].op = "unique"
              => /\ returns[i].status = "ok"
                 /\ Len(returns[i].ids) = 1

\* int(component, 16)
RECURSIVE HexValue(_)
HexValue(str) ==
    IF str = <<>> THEN 0
    ELSE HexValue(SubSeq(str, 1, Len(str) - 1)) * 16
            + (CHOOSE k \in 0..15 : HexChars[k + 1] = str[Len(str)])

\* C13: sequential generate_unique_identifier calls with the spiral component
\* asked for never return the same identifier twice, and each one's time
\* component is greater than that of every identifier returned before it.
C13_TimeComponentStrictlyIncreases ==
    \A i \in ReturnIndexes : \A j \in ReturnIndexes :
        (/\ i < j
         /\ returns[i].op = "unique" /\ returns[i].status = "ok"
         /\ returns[i].include_spiral
         /\ returns[j].op = "unique" /\ returns[j].status = "ok"
         /\ returns[j].include_spiral)
            => /\ returns[i].ids[1].identifier # returns[j].ids[1].identifier
               /\ HexValue(returns[i].ids[1].timestamp_component)
                     < HexValue(returns[j].ids[1].timestamp_component)

(***************************************************************************)
(* Properties of the pi calculator.                                        *)
(***************************************************************************)
\* C14: for every position the digit of the direct extraction equals the
\* digit at that position of the expansion the series algorithm produces.
C14_ExtractionAgreesWithSeries ==
    \A i \in ReturnIndexes :
        returns[i].op = "digit" => returns[i].extracted = returns[i].series

\* C15: a computation asked for with precision <= 0 fails (whatever
\* exception stands for InvalidPrecision, it does not return digits) and
\* leaves the digit cache as it was.
C15_NonPositivePrecisionRejected ==
    \A i \in ReturnIndexes :
        (returns[i].op = "calculate_pi" /\ returns[i].precision <= 0)
            => /\ returns[i].status # "ok"
               /\ returns[i].cache_after = returns[i].cache_before

\* C22: at angle 0 the hyperbolic and the lituus curve give a defined
\* value: the call returns, and neither coordinate is infinite.
C22_AngleZeroIsDefined ==
    \A i \in ReturnIndexes :
        (/\ returns[i].op = "spiral_point"
         /\ returns[i].theta = 0
         /\ returns[i].spiral_type \in {"hyperbolic", "lituus"})
            => /\ returns[i].status = "ok"
               /\ \A k \in 1..2 : returns[i].point[k].inf = 0

\* C25: whatever the interleaving of the callers of calculate_pi, the
\* series is computed at most once for one (algorithm, precision), and the
\* callers that ask for the same (algorithm, precision) and get a result
\* get the same digits.
C25_SingleComputationPerKey ==
    \A i \in ReturnIndexes : \A j \in ReturnIndexes :
        (/\ i < j
         /\ returns[i].op = "calculate_pi" /\ returns[j].op = "calculate_pi"
         /\ returns[i].precision = returns[j].precision
         /\ returns[i].algorithm = returns[j].algorithm)
            => /\ ~(returns[i].computed /\ returns[j].computed)
               /\ (returns[i].status = "ok" /\ returns[j].status = "ok")
                     => returns[i].digits = returns[j].digits

\* C29: no transaction holds an EXCLUSIVE lock on a resource on which a
\* different transaction holds a SHARED or an EXCLUSIVE lock.
C29_ExclusiveExcludesOthers ==
    \A t \in Threads : \A u \in Threads : \A resource \in Resources :
        (t # u /\ <<resource, "EXCLUSIVE">> \in locks_held[t])
            => /\ <<resource, "SHARED">> \notin locks_held[u]
               /\ <<resource, "EXCLUSIVE">> \notin locks_held[u]

\* C30: generate_sequence raises ValueError only for a length below 1 or
\* above the precision; for every other length, whatever the number of
\* earlier calls, it returns exactly `length` digits taken at a valid
\* offset of the available digits, which is call index * length when that
\* product is itself a valid offset and the slice there is unused.
C30_SliceOfRequestedLength ==
    \A i \in ReturnIndexes :
        returns[i].op = "sequence"
            => IF returns[i].length < 1 \/ returns[i].length > Precision
               THEN returns[i].status = "ValueError"
               ELSE /\ returns[i].status = "ok"
                    /\ Len(returns[i].sequence) = returns[i].length
                    /\ returns[i].start_position \in
                          0..(Len(PiDigits) - returns[i].length)
                    /\ (/\ returns[i].count_before * returns[i].length
                              < Len(PiDigits) - returns[i].length
                        /\ Slice(returns[i].count_before * returns[i].length,
                                 returns[i].length) \notin returns[i].issued_before)
                          => returns[i].start_position
                                = returns[i].count_before * returns[i].length

====
